---- MODULE Spec2Model ----
(***************************************************************************)
(* Time-decayed aggregation engine of the football scraper / autoencoder   *)
(* project: the training-set builder AggregatedPlayerDataset._init_        *)
(* (modeling/autoencoder_model.py) and the inference path                  *)
(* get_player_latent_vector (modeling/player_latents_extraction.py).       *)
(*                                                                         *)
(* A table (pandas DataFrame) is a sequence of rows; a row carries its     *)
(* index label, Player_ID, Date (a day number) and one cell per feature    *)
(* column.  A cell is a float64 / object value:                            *)
(*   kind "num"    a finite number num/den (den >= 1, lowest terms)        *)
(*   kind "nan"    NaN / missing                                           *)
(*   kind "inf"    +infinity          kind "ninf"   -infinity              *)
(*   kind "numstr" a string holding a number, e.g. '1' (value in num)      *)
(*   kind "text"   a string that is no number, e.g. 'unknown'              *)
(* Weights np.exp(-alpha * TimeDiff) are fixed-point numbers in units of   *)
(* 1/10000; alpha is counted in tenths.                                    *)
(***************************************************************************)
EXTENDS Integers, Sequences, FiniteSets, TLC

(* ------------------------------ bounds -------------------------------- *)

\* Largest number of rows the caller's table holds.
MaxRows == 4

\* Largest number of rows of the table that hold a missing, non-finite or
\* non-numeric cell.
MaxBad == 1

\* Player identifiers, by their rank in sort order (Player_ID is an object
\* column; groupby orders its keys ascending).  Player 1 has rows of every
\* kind; player 2 is a second entity with complete rows.
PlayerIds == {1, 2}

\* Day numbers of the rows, and the target dates tried.  With target 15 the
\* days 1 and 8 have ages 14 and 7; with target 8 the day 15 lies after the
\* target.
Days == {1, 8, 15}
TargetDates == {8, 15}

\* alpha in tenths: 0.1 (the default) and 107.0 (large enough that np.exp
\* underflows to 0.0 for every age of 7 days or more).
Alphas == {1, 1070}

(* --------------------------- float values ----------------------------- *)

RECURSIVE GCD(_, _)
GCD(a, b) == IF b = 0 THEN a ELSE GCD(b, a % b)

Abs(x) == IF x < 0 THEN -x ELSE x

\* The finite number n/d (d > 0) in lowest terms.
Rat(n, d) ==
    LET g == GCD(Abs(n), d)
    IN  [kind |-> "num", num |-> n \div g, den |-> d \div g]

Num(n) == [kind |-> "num", num |-> n, den |-> 1]
NaN == [kind |-> "nan", num |-> 0, den |-> 1]
PosInf == [kind |-> "inf", num |-> 0, den |-> 1]
NegInf == [kind |-> "ninf", num |-> 0, den |-> 1]
NumStr(n) == [kind |-> "numstr", num |-> n, den |-> 1]
Text == [kind |-> "text", num |-> 0, den |-> 1]

IsFinite(c) == c.kind = "num"
IsNaN(c) == c.kind = "nan"
IsInf(c) == c.kind \in {"inf", "ninf"}

\* pd.to_numeric(column, errors='coerce'), cell by cell: a numeric string
\* becomes its number, any other string becomes NaN, numbers stay.
ToNumeric(c) ==
    CASE c.kind = "numstr" -> Num(c.num)
      [] c.kind = "text" -> NaN
      [] OTHER -> c

\* np.exp(-x) as a float64, for x = xTenths / 10, in units of 1/10000.
\* float64 exp returns exactly 0.0 below -745.13; the table holds
\* round(10000 * exp(-k/10)) for k = 0..30.  (Arguments between 3.0 and
\* 745.2 lie outside the modelled domain and are never used.)
ExpTable ==
    << 10000, 9048, 8187, 7408, 6703, 6065, 5488, 4966, 4493, 4066,
       3679, 3329, 3012, 2725, 2466, 2231, 2019, 1827, 1653, 1496,
       1353, 1225, 1108, 1003, 907, 821, 743, 672, 608, 550, 498 >>

UnderflowTenths == 7452

NpExpNeg(xTenths) ==
    IF xTenths >= UnderflowTenths THEN 0 ELSE ExpTable[xTenths + 1]

\* One weight unit: np.exp(0) = 1.0.
WScale == ExpTable[1]

\* cell * weight (DataFrame.multiply): NaN stays NaN, inf * 0.0 is NaN.
MulW(c, w) ==
    CASE c.kind = "num" -> Num(c.num * w)
      [] c.kind = "nan" -> NaN
      [] c.kind = "inf" -> IF w = 0 THEN NaN ELSE PosInf
      [] c.kind = "ninf" -> IF w = 0 THEN NaN ELSE NegInf
      [] OTHER -> NaN

RECURSIVE SumNums(_)
SumNums(s) ==
    IF s = << >> THEN 0
    ELSE (IF Head(s).kind = "num" THEN Head(s).num ELSE 0) + SumNums(Tail(s))

HasKind(s, k) == \E i \in 1..Len(s) : s[i].kind = k

\* Series.sum() with skipna=True over a sequence of products: NaN cells are
\* skipped (an all-NaN or empty column sums to 0), infinities are kept.
SumSkipNa(s) ==
    CASE HasKind(s, "inf") /\ HasKind(s, "ninf") -> NaN
      [] HasKind(s, "inf") -> PosInf
      [] HasKind(s, "ninf") -> NegInf
      [] OTHER -> Num(SumNums(s))

\* float64 division of a column sum by the weight total.
DivW(s, wtotal) ==
    CASE s.kind = "nan" -> NaN
      [] s.kind = "inf" -> PosInf
      [] s.kind = "ninf" -> NegInf
      [] OTHER ->
           IF wtotal = 0
           THEN (IF s.num = 0 THEN NaN ELSE IF s.num > 0 THEN PosInf ELSE NegInf)
           ELSE Rat(s.num, wtotal)

(* ------------------------------ tables -------------------------------- *)

HomeAway == "Home/Away"

\* The columns of the table other than Player_ID and Date, in column order.
Columns == << "goals", HomeAway >>
ColSet == {Columns[i] : i \in 1..Len(Columns)}

\* The cells of one row: goals finite, missing or infinite beside a numeric
\* Home/Away string ('1'), or a Home/Away string that is no number (the
\* scraper writes 'unknown' for a player of neither team).
RowOf(g, h) == [c \in ColSet |-> IF c = HomeAway THEN h ELSE g]

RowValues(p) ==
    IF p = 1
    THEN {RowOf(g, NumStr(1)) : g \in {Num(1), Num(3), NaN, PosInf}}
            \cup {RowOf(Num(1), Text)}
    ELSE {RowOf(Num(3), NumStr(1))}

\* What a table is besides its rows: its feature columns in column order,
\* whether the Player_ID column has a numeric dtype (int64) or holds strings
\* (object), and which of the iteration orders of a Python set of column
\* names this process has (1: as listed, 2: reversed), and the pandas
\* build of the process ("1.1-2.x", "<1.1" or ">=3.0").
DefaultSchema ==
    [cols |-> Columns, id_numeric |-> FALSE, hash |-> 1, pandas |-> "1.1-2.x"]

Schemas ==
    { DefaultSchema,
      [DefaultSchema EXCEPT !.hash = 2],
      [DefaultSchema EXCEPT !.id_numeric = TRUE],
      [DefaultSchema EXCEPT !.cols = << >>],
      [DefaultSchema EXCEPT !.pandas = "<1.1"],
      [DefaultSchema EXCEPT !.pandas = ">=3.0"] }

SeqRange(s) == {s[i] : i \in 1..Len(s)}

\* The rank of a row among the rows of one player and one date.
ValueRank(v) ==
    CASE DOMAIN v = {} -> 0
      [] v[HomeAway].kind = "text" -> 4
      [] v["goals"].kind = "nan" -> 2
      [] v["goals"].kind = "inf" -> 3
      [] OTHER -> IF v["goals"].num = 1 THEN 0 ELSE 1

\* Tables are loaded in chronological order, and within one date by player
\* and value: r may follow q.
MayFollow(q, r) ==
    \/ q.Date < r.Date
    \/ q.Date = r.Date /\ q.Player_ID < r.Player_ID
    \/ q.Date = r.Date /\ q.Player_ID = r.Player_ID
          /\ ValueRank(q.val) <= ValueRank(r.val)

\* A row holds a missing, non-finite or non-numeric cell.
IsBadRow(r) == \E c \in DOMAIN r.val : r.val[c].kind \notin {"num", "numstr"}

\* The cells a row of player p can hold in a table of schema sch: rows with
\* a missing, non-finite or non-numeric cell are tried in tables of the
\* default schema.
SchemaRowValues(p, sch) ==
    LET cs == SeqRange(sch.cols)
        vals == {[c \in cs |-> v[c]] : v \in RowValues(p)}
    IN  IF sch = DefaultSchema THEN vals
        ELSE {v \in vals : \A c \in cs : v[c].kind \in {"num", "numstr"}}

BadCount(t) == Cardinality({i \in 1..Len(t) : IsBadRow(t[i])})

Ids(t) == {t[i].Player_ID : i \in 1..Len(t)}
Labels(t) == {t[i].idx : i \in 1..Len(t)}

\* df[df['Player_ID'] == pid]
PlayerRows(t, pid) == SelectSeq(t, LAMBDA r : r.Player_ID = pid)

\* The ascending sequence of a finite set of integers (groupby sorts its keys).
RECURSIVE SortedSeq(_)
SortedSeq(S) ==
    IF S = {} THEN << >>
    ELSE LET m == CHOOSE x \in S : \A y \in S : x <= y
         IN  << m >> \o SortedSeq(S \ {m})

RECURSIVE SumInts(_)
SumInts(s) == IF s = << >> THEN 0 ELSE Head(s) + SumInts(Tail(s))

(* ----------------- modeling/autoencoder_model.py ---------------------- *)

\* clean_dataset: infinities become NaN and every row with a NaN cell is
\* dropped, in place (the caller's table is the one changed).
clean_dataset(df) ==
    SelectSeq(df, LAMBDA r : \A c \in DOMAIN r.val : ~IsNaN(r.val[c]) /\ ~IsInf(r.val[c]))

\* df['Home/Away'] = pd.to_numeric(df['Home/Away'], errors='coerce'),
\* assigned to the table returned by clean_dataset: the caller's table.
HomeAwayToNumeric(df) ==
    [i \in 1..Len(df) |->
        IF HomeAway \in DOMAIN df[i].val
        THEN [df[i] EXCEPT !.val[HomeAway] = ToNumeric(@)]
        ELSE df[i]]

\* Mutant of HistorySlice: the boundary taken inclusive.
HistorySliceInclusive(df, target) == SelectSeq(df, LAMBDA r : r.Date <= target)

\* df[df['Date'] < self.target_date]
HistorySlice(df, target) == SelectSeq(df, LAMBDA r : r.Date < target)

\* df[df['Date'] == self.target_date]
TargetSlice(df, target) == SelectSeq(df, LAMBDA r : r.Date = target)

\* TimeDiff = (target_date - Date).dt.days
TimeDiff(r, target) == target - r.Date

\* Mutant of Weight: every row given the weight of a row of age 0.
WeightNoDecay(r, target, alpha) == NpExpNeg(0)

\* Weight = np.exp(-alpha * TimeDiff)
Weight(r, target, alpha) == NpExpNeg(alpha * TimeDiff(r, target))

\* df_train.select_dtypes(include=[np.number]).columns, in column order:
\* Player_ID when its dtype is numeric, the feature columns (Home/Away is
\* numeric after the conversion above; Date is a datetime and never
\* numeric), then TimeDiff and Weight, which lines 38-39 append.
BuilderNumericCols(sch) ==
    (IF sch.id_numeric THEN << "Player_ID" >> ELSE << >>)
        \o sch.cols \o << "TimeDiff", "Weight" >>

\* The numeric columns of df_train except Weight and TimeDiff.
BuilderFeatureCols(sch) ==
    SelectSeq(BuilderNumericCols(sch), LAMBDA c : c \notin {"Weight", "TimeDiff"})

\* df_val.columns: the table's columns.
ValColumns(sch) == {"Player_ID", "Date"} \cup SeqRange(sch.cols)

\* df_train[['Player_ID', 'Weight'] + feature_cols].groupby('Player_ID'):
\* with Player_ID among feature_cols the selection holds the label twice
\* and groupby raises ValueError (Grouper for 'Player_ID' not 1-dimensional).
GroupbyRaises(feature_cols) == "Player_ID" \in SeqRange(feature_cols)

\* .groupby('Player_ID').apply(...).reset_index() on a selection without
\* rows, where apply has no group to call the lambda on.  The pandas build
\* decides how the call ends: from 1.1 to 2.x the empty result keeps the
\* selected columns, Player_ID among them, under an index of that name, and
\* reset_index raises ValueError (line 51); before 1.1 the result has no
\* Player_ID column and aggregated['Player_ID'] raises KeyError (line 60);
\* from 3.0 on the grouping column is left out and the call returns.
EmptyApply(pandas) ==
    CASE pandas = "1.1-2.x" -> "ValueError"
      [] pandas = "<1.1" -> "KeyError"
      [] OTHER -> ""

Reverse(s) == [i \in 1..Len(s) |-> s[Len(s) + 1 - i]]

\* list(set(feature_cols).intersection(df_val.columns)): the common columns
\* in the iteration order of the set, which the process's string hashing
\* fixes.
CommonCols(feature_cols, val_cols, hash) ==
    LET listed == SelectSeq(feature_cols, LAMBDA c : c \in val_cols)
    IN  IF hash = 1 THEN listed ELSE Reverse(listed)

\* Mutant of PairColumns: the column list rebuilt in another order for
\* every second pair.
PairColumnsPerPair(common_cols, k) ==
    IF k % 2 = 0 THEN Reverse(common_cols) ELSE common_cols

\* The column list the k-th pass of the pair loop indexes with, for the
\* aggregated row (line 61) and for the target row (line 62): common_cols.
PairColumns(common_cols, k) == common_cols

\* Mutant of GroupKeys: the keys in order of first appearance (sort=False).
GroupKeysFirstSeen(df_train) ==
    LET first(p) == CHOOSE i \in 1..Len(df_train) :
                        /\ df_train[i].Player_ID = p
                        /\ \A j \in 1..(i - 1) : df_train[j].Player_ID # p
        pos == {first(p) : p \in Ids(df_train)}
    IN  [k \in 1..Cardinality(pos) |-> df_train[SortedSeq(pos)[k]].Player_ID]

\* The keys of groupby('Player_ID'), which sorts them ascending; the pair
\* loop walks aggregated['Player_ID'].unique() in that order.
GroupKeys(df_train) == SortedSeq(Ids(df_train))

\* The groupby lambda for one group and one column:
\* group[col].multiply(group['Weight']).sum() / group['Weight'].sum()
GroupAggregate(group, col, target, alpha) ==
    LET prod == [i \in 1..Len(group) |->
                    MulW(group[i].val[col], Weight(group[i], target, alpha))]
        wsum == SumInts([i \in 1..Len(group) |-> Weight(group[i], target, alpha)])
    IN  DivW(SumSkipNa(prod), wsum)

\* AggregatedPlayerDataset._init_(df, target_date, alpha) on a table of
\* schema sch.  The result holds the caller's table as the call leaves it
\* (df), the two slices, the column lists, the exception raised if any, and
\* the three attributes set on the dataset.  A vector is kept as the map
\* from the columns of its positions to their values; pair_cols holds, for
\* every pair, the column lists that give its two vectors their positions.
BuildDataset(df0, sch, target, alpha) ==
    LET df == HomeAwayToNumeric(clean_dataset(df0))
        target_ids == Ids(TargetSlice(df, target))
        hist_ids == Ids(HistorySlice(df, target))
        valid_ids == target_ids \cap hist_ids
        dfv == SelectSeq(df, LAMBDA r : r.Player_ID \in valid_ids)
        df_train == HistorySlice(dfv, target)
        df_val == TargetSlice(dfv, target)
        feature_cols == BuilderFeatureCols(sch)
        raised == IF GroupbyRaises(feature_cols) THEN "ValueError"
                  ELSE IF df_train = << >> THEN EmptyApply(sch.pandas)
                  ELSE ""
        common_cols == CommonCols(feature_cols, ValColumns(sch), sch.hash)
        pids == IF raised # "" THEN << >> ELSE GroupKeys(df_train)
    IN  [ df |-> df,
          df_train |-> df_train,
          df_val |-> df_val,
          feature_cols |-> feature_cols,
          raised |-> raised,
          common_cols |-> IF raised = "ValueError" THEN << >> ELSE common_cols,
          player_ids |-> pids,
          pair_cols |->
              [k \in 1..Len(pids) |->
                  [features |-> PairColumns(common_cols, k),
                   target |-> PairColumns(common_cols, k)]],
          aggregated_features |->
              [k \in 1..Len(pids) |->
                  [c \in SeqRange(common_cols) |->
                      GroupAggregate(PlayerRows(df_train, pids[k]), c, target, alpha)]],
          target_values |->
              [k \in 1..Len(pids) |->
                  [c \in SeqRange(common_cols) |->
                      ToNumeric(PlayerRows(df_val, pids[k])[1].val[c])]] ]

(* ------------- modeling/player_latents_extraction.py ------------------ *)

\* Mutant of LatentHistory: the boundary taken inclusive.
LatentHistoryInclusive(player_df, target) ==
    SelectSeq(player_df, LAMBDA r : r.Date <= target)

\* player_df[player_df['Date'] < target_date].copy()
LatentHistory(player_df, target) == SelectSeq(player_df, LAMBDA r : r.Date < target)

\* player_df.select_dtypes(include=[np.number]).columns, in column order.
LatentNumericCols(sch) ==
    (IF sch.id_numeric THEN << "Player_ID" >> ELSE << >>)
        \o sch.cols \o << "TimeDiff", "Weight" >>

\* The numeric columns except Player_ID, Date, TimeDiff and Weight.
LatentFeatureCols(sch) ==
    SelectSeq(LatentNumericCols(sch),
              LAMBDA c : c \notin {"Player_ID", "Date", "TimeDiff", "Weight"})

\* The cell of row r in column c of the working copy.
CellOf(r, c) == IF c = "Player_ID" THEN Num(r.Player_ID) ELSE r.val[c]

\* DataFrame.fillna(0), cell by cell.
FillNa0(c) == IF IsNaN(c) THEN Num(0) ELSE c

\* feature_df = player_df[feature_cols].fillna(0), one cell (Home/Away was
\* made numeric on line 31).
FilledCell(r, c) == FillNa0(ToNumeric(CellOf(r, c)))

\* weighted_sum = feature_df.multiply(Weight).sum(axis=0), one column.
WeightedSum(hist, col, target, alpha) ==
    SumSkipNa([i \in 1..Len(hist) |->
        MulW(FilledCell(hist[i], col), Weight(hist[i], target, alpha))])

\* weight_total = player_df['Weight'].sum()
WeightTotal(hist, target, alpha) ==
    SumInts([i \in 1..Len(hist) |-> Weight(hist[i], target, alpha)])

\* model.encoder(features_tensor): the trained encoder is external; its
\* output is recorded as the application of the encoder to its input.
Encoder(v) == [encoded |-> v]

NoVector == [c \in {} |-> NaN]

\* get_player_latent_vector(model, player_df, target_date, alpha) on a table
\* of schema sch: the value returned (ret = "None" or "latent", with the
\* vector in latent), the warning printed, the vectors handed to the
\* encoder, and feature_df, the cells that were multiplied by the weights.
GetPlayerLatentVector(player_df, sch, target, alpha) ==
    LET hist == LatentHistory(player_df, target)
        cols == SeqRange(LatentFeatureCols(sch))
        wtotal == WeightTotal(hist, target, alpha)
        vec == [c \in cols |-> DivW(WeightedSum(hist, c, target, alpha), wtotal)]
        feature_df == [i \in 1..Len(hist) |-> [c \in cols |-> FilledCell(hist[i], c)]]
    IN  IF hist = << >>
        THEN [ret |-> "None", latent |-> Encoder(NoVector),
              warning |-> "No historical data", encoder_in |-> << >>,
              feature_df |-> << >>]
        ELSE IF wtotal = 0
        THEN [ret |-> "None", latent |-> Encoder(NoVector),
              warning |-> "Zero total weight", encoder_in |-> << >>,
              feature_df |-> feature_df]
        ELSE [ret |-> "latent", latent |-> Encoder(vec),
              warning |-> "", encoder_in |-> << vec >>,
              feature_df |-> feature_df]

(* ------------ preprocessing/team_stats_preprocessing.py --------------- *)
(* A team table is a sequence of match rows [idx, team, date, gf, result]:  *)
(* one numeric column (gf, goals for) stands for the numeric columns, and   *)
(* result is the column preprocess_team_stats derives from gf and ga (ga is *)
(* 2 in every row).  alpha is counted in tenths, as for the player         *)
(* dataset: 1 is the default 0.1.                                           *)

TeamNames == {"A", "B"}

\* The gf cells tried: team A has matches of either value, team B of one.
TeamGoals(t) == IF t = "A" THEN {1, 3} ELSE {3}

\* The result column of a preprocessed row: gf against ga = 2.
ResultOf(gf) == IF gf > 2 THEN "win" ELSE IF gf < 2 THEN "loss" ELSE "draw"

\* Target dates of the team-form calls, and the window sizes tried.
TeamTargets == {8, 15, 22}
MaxWindow == 2

\* alpha in tenths: 0.1 (the default) and 110.0, for which exp(alpha * 7)
\* is beyond the float64 range.
TeamAlphas == {1, 1100}

\* float64 exp: exp(x) is +inf above x = 709.78, so from 709.8 on.
ExpOverflowTenths == 7098

\* round(1000000 * exp(k/10)) for k = 0..30.  (Arguments between 3.0 and
\* 709.8 lie outside the modelled domain and are never used.)
TeamExpTable ==
    << 1000000, 1105171, 1221403, 1349859, 1491825, 1648721, 1822119,
       2013753, 2225541, 2459603, 2718282, 3004166, 3320117, 3669297,
       4055200, 4481689, 4953032, 5473947, 6049647, 6685894, 7389056,
       8166170, 9025013, 9974182, 11023176, 12182494, 13463738, 14879732,
       16444647, 18174145, 20085537 >>

\* np.exp(x) as a float64, for x = xTenths / 10.
NpExp(xTenths) ==
    IF xTenths >= ExpOverflowTenths THEN PosInf
    ELSE Rat(TeamExpTable[xTenths + 1], TeamExpTable[1])

Min(a, b) == IF a < b THEN a ELSE b

\* The rows of s with the latest date first (sort_values('date',
\* ascending=False)); rows of one team have distinct dates.
RECURSIVE SortDateDescending(_)
SortDateDescending(s) ==
    IF s = << >> THEN << >>
    ELSE LET i == CHOOSE i \in 1..Len(s) : \A j \in 1..Len(s) : s[j].date <= s[i].date
         IN  << s[i] >> \o SortDateDescending(SubSeq(s, 1, i - 1) \o SubSeq(s, i + 1, Len(s)))

\* team_stats_df[(team == team_name) & (date < target_date)]
TeamRowsBefore(team_stats_df, team_name, target) ==
    SelectSeq(team_stats_df, LAMBDA r : r.team = team_name /\ r.date < target)

\* Mutant of RecentFirst: sorted with the earliest date first.
RecentFirstAscending(team_df) == Reverse(SortDateDescending(team_df))

\* team_df.sort_values('date', ascending=False)
RecentFirst(team_df) == SortDateDescending(team_df)

\* get_team_form(team_stats_df, team_name, target_date, num_matches), for a
\* window num_matches >= 0: the filtered rows, latest first, cut by head().
get_team_form(team_stats_df, team_name, target, num_matches) ==
    LET team_df == TeamRowsBefore(team_stats_df, team_name, target)
        sorted == RecentFirst(team_df)
    IN  SubSeq(sorted, 1, Min(num_matches, Len(sorted)))

\* Mutant of TeamWeight: the weight decaying with the days from the first
\* match.
TeamWeightDecaying(days_from_first, a) ==
    Rat(NpExpNeg(a * days_from_first), WScale)

\* df['weight'] = np.exp(alpha * df['days_from_first'])
TeamWeight(days_from_first, a) == NpExp(a * days_from_first)

\* float64 product of a finite cell v and a weight w.
TeamMul(v, w) ==
    IF w.kind = "inf"
    THEN (IF v = 0 THEN NaN ELSE IF v > 0 THEN PosInf ELSE NegInf)
    ELSE Rat(v * w.num, w.den)

\* The sum of a sequence of finite fractions, as a fraction.
RECURSIVE SumRats(_)
SumRats(s) ==
    IF s = << >> THEN Num(0)
    ELSE LET t == SumRats(Tail(s))
             h == IF Head(s).kind = "num" THEN Head(s) ELSE Num(0)
             g == GCD(h.den, t.den)
         IN  Rat(h.num * (t.den \div g) + t.num * (h.den \div g),
                 (h.den \div g) * t.den)

\* Series.sum() (skipna=True) of float64 cells.
TeamSum(s) ==
    CASE HasKind(s, "inf") /\ HasKind(s, "ninf") -> NaN
      [] HasKind(s, "inf") -> PosInf
      [] HasKind(s, "ninf") -> NegInf
      [] OTHER -> SumRats(s)

\* float64 quotient of a column sum and the weight sum (which is above 0).
TeamDiv(s, ws) ==
    CASE s.kind = "nan" \/ ws.kind = "nan" -> NaN
      [] ws.kind = "inf" -> IF s.kind = "num" THEN Num(0) ELSE NaN
      [] s.kind = "inf" -> PosInf
      [] s.kind = "ninf" -> NegInf
      [] ws.num = 0 ->
           IF s.num = 0 THEN NaN ELSE IF s.num > 0 THEN PosInf ELSE NegInf
      [] OTHER ->
           LET gn == GCD(Abs(s.num), ws.num)
               gd == GCD(s.den, ws.den)
           IN  Rat((s.num \div gn) * (ws.den \div gd),
                   (s.den \div gd) * (ws.num \div gn))

\* The empty dict.
EmptyStats == [k \in {} |-> NaN]

CountResult(rows, res) == Cardinality({i \in 1..Len(rows) : rows[i].result = res})

\* aggregate_team_form(team_form_df, weighted, alpha): {} for an empty
\* table, else the dict of the (weighted) average of the numeric column and
\* the counts of results.
aggregate_team_form(team_form_df, weighted, a) ==
    IF team_form_df = << >> THEN EmptyStats
    ELSE LET rows == Reverse(SortDateDescending(team_form_df))
             first_date == rows[1].date
             weight == [i \in 1..Len(rows) |-> TeamWeight(rows[i].date - first_date, a)]
             weight_sum == TeamSum(weight)
             avg == IF weighted
                    THEN TeamDiv(TeamSum([i \in 1..Len(rows) |->
                                             TeamMul(rows[i].gf, weight[i])]),
                                 weight_sum)
                    ELSE Rat(SumInts([i \in 1..Len(rows) |-> rows[i].gf]), Len(rows))
             wins == CountResult(rows, "win")
             draws == CountResult(rows, "draw")
             losses == CountResult(rows, "loss")
         IN  [k \in {"avg_gf", "wins", "draws", "losses", "points"} |->
                CASE k = "avg_gf" -> avg
                  [] k = "wins" -> Num(wins)
                  [] k = "draws" -> Num(draws)
                  [] k = "losses" -> Num(losses)
                  [] OTHER -> Num(wins * 3 + draws)]

\* The default alpha = 0.1 of aggregate_team_form, in tenths.
DefaultTeamAlpha == 1

\* compile_team_recent_form(team_stats_df, teams, target_date, num_matches):
\* the rows of the returned frame, one for every listed team whose
\* aggregated form is not empty, in the order of the list.
compile_team_recent_form(team_stats_df, teams, target, num_matches) ==
    LET form_df(i) == get_team_form(team_stats_df, teams[i], target, num_matches)
        form_stats(i) == aggregate_team_form(form_df(i), TRUE, DefaultTeamAlpha)
        kept == SelectSeq([i \in 1..Len(teams) |-> i],
                          LAMBDA i : form_stats(i) # EmptyStats)
    IN  [k \in 1..Len(kept) |->
            [stats |-> form_stats(kept[k]),
             team |-> teams[kept[k]],
             form_date |-> target,
             matches_included |-> Len(form_df(kept[k]))]]

(* ------------------- scraper/team_stats_scraper.py -------------------- *)
(* A name is a sequence of characters, so that lower() and the substring   *)
(* test of the team search are computed and not assumed.                   *)

\* str.lower() on one character of the model's alphabet.
LowerChar(c) ==
    CASE c = "R" -> "r"
      [] c = "M" -> "m"
      [] c = "Z" -> "z"
      [] OTHER -> c

\* str.lower()
Lower(s) == [i \in 1..Len(s) |-> LowerChar(s[i])]

\* a in b, for strings.
IsSubstring(a, b) ==
    \E k \in 0..(Len(b) - Len(a)) : SubSeq(b, k + 1, k + Len(a)) = a

\* The names the API knows: the team looked for, and its opponent.
ApiTeam == << "R", "M" >>
ApiOpponent == << "Z" >>

\* The team_name arguments tried: the API's spelling, another case, a part
\* of the name, and a name the API does not know.
TeamQueries == { << "R", "M" >>, << "r", "m" >>, << "R" >>, << "q" >> }

\* Answers of the search endpoint: the request fails, or a list of results.
SearchAnswers ==
    { [raises |-> TRUE, results |-> << >>],
      [raises |-> FALSE, results |-> << >>],
      [raises |-> FALSE, results |-> << [name |-> ApiTeam, id |-> 1] >>],
      [raises |-> FALSE,
       results |-> << [name |-> ApiOpponent, id |-> 2], [name |-> ApiTeam, id |-> 1] >>] }

\* The events the API can list for the team: shots is the pair (home, away)
\* of the 'Total shots' statistic, absent (has_shots false) when the
\* statistics request fails or has no such item.
EventPool ==
    { [status |-> "finished", homeTeam |-> ApiTeam, awayTeam |-> ApiOpponent,
       homeScore |-> 2, awayScore |-> 1, has_shots |-> TRUE, shots |-> << 5, 7 >>],
      [status |-> "finished", homeTeam |-> ApiOpponent, awayTeam |-> ApiTeam,
       homeScore |-> 0, awayScore |-> 3, has_shots |-> FALSE, shots |-> << 0, 0 >>],
      [status |-> "inprogress", homeTeam |-> ApiTeam, awayTeam |-> ApiOpponent,
       homeScore |-> 1, awayScore |-> 1, has_shots |-> FALSE, shots |-> << 0, 0 >>] }

MaxEvents == 2

\* Answers of the events endpoint: no 'events' key, or a list of events.
EventAnswers ==
    { [has_key |-> FALSE, events |-> << >>] } \cup
    { [has_key |-> TRUE, events |-> es] :
          es \in UNION { [1..n -> EventPool] : n \in 0..MaxEvents } }

\* The id of the first search result whose name matches team_name exactly
\* or contains it, both lower-cased; 0 stands for None.
RECURSIVE FindTeamId(_, _)
FindTeamId(results, team_name) ==
    IF results = << >> THEN 0
    ELSE LET result == Head(results)
         IN  IF \/ Lower(result.name) = Lower(team_name)
                \/ IsSubstring(Lower(team_name), Lower(result.name))
             THEN result.id
             ELSE FindTeamId(Tail(results), team_name)

\* is_home = home_team == team_name
IsHome(event, team_name) == event.homeTeam = team_name

\* The record built for one finished event.
TeamRecord(event, team_name) ==
    LET is_home == IsHome(event, team_name)
    IN  [match_id |-> << event.homeTeam, event.awayTeam >>,
         team |-> team_name,
         opponent |-> IF is_home THEN event.awayTeam ELSE event.homeTeam,
         gf |-> IF is_home THEN event.homeScore ELSE event.awayScore,
         ga |-> IF is_home THEN event.awayScore ELSE event.homeScore,
         home_away |-> IF is_home THEN "1" ELSE "0",
         sh |-> IF ~event.has_shots THEN 0
                ELSE IF is_home THEN event.shots[1] ELSE event.shots[2]]

\* The events with status 'finished', in the order of the answer.
FinishedEvents(events) == SelectSeq(events, LAMBDA e : e.status = "finished")

\* get_team_matches_api(team_name, num_matches) against an API that answers
\* the search with search and the events request with events: the list of
\* records, [] when the team is not found, the answer has no events, or a
\* request raises.
get_team_matches_api(team_name, search, events) ==
    IF search.raises THEN << >>
    ELSE IF FindTeamId(search.results, team_name) = 0 THEN << >>
    ELSE IF ~events.has_key THEN << >>
    ELSE LET finished == FinishedEvents(events.events)
         IN  [k \in 1..Len(finished) |-> TeamRecord(finished[k], team_name)]

\* get_team_last_matches(team_name, num_matches): the API's matches when
\* there are any; otherwise line 671 calls get_team_last_matches_browser, a
\* name no module defines, and the call raises NameError.
get_team_last_matches(team_name, search, events) ==
    LET matches == get_team_matches_api(team_name, search, events)
    IN  IF matches # << >>
        THEN [matches |-> matches, api_matches |-> matches,
              browser_started |-> FALSE, raised |-> ""]
        ELSE [matches |-> << >>, api_matches |-> matches,
              browser_started |-> FALSE, raised |-> "NameError"]

(* ------------------------ team_form_scraper.py ------------------------ *)

\* The team lists handed to scrape_team_data.
TeamNameLists ==
    { << >>, << << "R", "M" >> >>, << << "q" >>, << "R", "M" >> >>,
      << << "R", "M" >>, << "r", "m" >>, << "R" >> >> }

\* The seconds scrape_team_data waits between two teams.
TeamWaitSeconds == 2

\* One iteration of the loop of scrape_team_data for team number i (from
\* 0) of n: what it appends to the log and to all_match_data.  The attempt
\* is get_team_last_matches; to_csv_raises says whether writing the
\* team's file fails; the wait is inside the try block, after the attempt.
ScrapeIteration(i, n, attempt, to_csv_raises) ==
    LET started == << [ev |-> "attempt", arg |-> i] >>
        waits == IF i < n - 1 THEN << [ev |-> "sleep", arg |-> TeamWaitSeconds] >>
                 ELSE << >>
    IN  IF attempt.raised # ""
        THEN [log |-> started, data |-> << >>, error |-> attempt.raised]
        ELSE IF attempt.matches # << >> /\ to_csv_raises
        THEN [log |-> started, data |-> << >>, error |-> "OSError"]
        ELSE [log |-> started \o waits, data |-> attempt.matches, error |-> ""]

(* ------------- scraper/team_stats_scraper.py: statistics -------------- *)
(* A displayed value is a string, a sequence of characters; a cleaned value *)
(* is [t |-> "int", n, s] or, for a float or a string, [t, n |-> 0, s] with *)
(* the text it was made from.                                               *)

Digits == << "0", "1", "2", "3", "4", "5", "6", "7", "8", "9" >>

DigitChars == {Digits[i] : i \in 1..Len(Digits)}

\* The number a digit character stands for.
DigitVal(c) == (CHOOSE i \in 1..Len(Digits) : Digits[i] = c) - 1

\* str.isdigit()
IsDigitStr(s) == s # << >> /\ \A i \in 1..Len(s) : s[i] \in DigitChars

\* int(s) of a string of digits.
RECURSIVE IntOf(_)
IntOf(s) ==
    IF s = << >> THEN 0
    ELSE 10 * IntOf(SubSeq(s, 1, Len(s) - 1)) + DigitVal(s[Len(s)])

\* str.strip()
RECURSIVE Strip(_)
Strip(s) ==
    IF s = << >> THEN s
    ELSE IF Head(s) = " " THEN Strip(Tail(s))
    ELSE IF s[Len(s)] = " " THEN Strip(SubSeq(s, 1, Len(s) - 1))
    ELSE s

\* c in s, for a character c.
HasChar(s, c) == \E i \in 1..Len(s) : s[i] = c

\* s.split(c)
RECURSIVE Split(_, _)
Split(s, c) ==
    IF ~HasChar(s, c) THEN << s >>
    ELSE LET i == CHOOSE i \in 1..Len(s) :
                      s[i] = c /\ \A j \in 1..(i - 1) : s[j] # c
         IN  << SubSeq(s, 1, i - 1) >> \o Split(SubSeq(s, i + 1, Len(s)), c)

\* s.replace(c, '')
RemoveChar(s, c) == SelectSeq(s, LAMBDA x : x # c)

IntValue(n) == [t |-> "int", n |-> n, s |-> << >>]
FloatValue(s) == [t |-> "float", n |-> 0, s |-> s]
StrValue(s) == [t |-> "str", n |-> 0, s |-> s]

\* s without the sign int() and float() accept in front of the digits.
Unsigned(s) == IF s # << >> /\ Head(s) \in {"+", "-"} THEN Tail(s) ELSE s

\* int(s) succeeds: after strip, an optional sign and digits.
IsIntStr(s) == IsDigitStr(Unsigned(Strip(s)))

\* int(s) for a string int() accepts.
SignedIntOf(s) ==
    IF Head(Strip(s)) = "-" THEN 0 - IntOf(Tail(Strip(s)))
    ELSE IntOf(Unsigned(Strip(s)))

\* float(s) succeeds: after strip, an optional sign and digits with at
\* most one point.  (The texts of the model hold no letter of an exponent,
\* of 'inf' or of 'nan', and no underscore.)
IsFloatStr(s) ==
    LET v == Unsigned(Strip(s))
    IN  /\ Len(SelectSeq(v, LAMBDA x : x = ".")) <= 1
        /\ IsDigitStr(RemoveChar(v, "."))

\* s.replace('km', '')
RECURSIVE RemoveKm(_)
RemoveKm(s) ==
    IF Len(s) < 2 THEN s
    ELSE IF SubSeq(s, 1, 2) = << "k", "m" >> THEN RemoveKm(SubSeq(s, 3, Len(s)))
    ELSE << Head(s) >> \o RemoveKm(Tail(s))

\* clean_stat_value(value): a float() that raises is caught at line 411
\* and gives 0.
clean_stat_value(value) ==
    IF value = << >> \/ value = << "-" >> THEN IntValue(0)
    ELSE IF HasChar(value, "%")
    THEN (IF IsFloatStr(RemoveChar(value, "%"))
          THEN FloatValue(Strip(RemoveChar(value, "%")))
          ELSE IntValue(0))
    ELSE IF IsSubstring(<< "k", "m" >>, value)
    THEN (IF IsFloatStr(RemoveKm(value))
          THEN FloatValue(Strip(RemoveKm(value)))
          ELSE IntValue(0))
    ELSE IF HasChar(value, "/") /\ Len(Split(value, "/")) = 2
    THEN (IF IsIntStr(Split(value, "/")[1])
          THEN IntValue(SignedIntOf(Split(value, "/")[1]))
          ELSE IntValue(0))
    ELSE IF IsDigitStr(value) THEN IntValue(IntOf(value))
    ELSE IF IsDigitStr(RemoveChar(value, ".")) /\ Len(SelectSeq(value, LAMBDA x : x = ".")) = 1
    THEN FloatValue(value)
    ELSE StrValue(value)

\* The statistic rows a page can show: [name, home, away], name being the
\* row's label lower-cased with '_' for ' ', home and away the texts shown.
PenaltyTexts ==
    { << "2", "/", "3" >>, << "0", "/", "0" >>, << "1", "/", " ", "1" >>,
      << "2" >>, << "-" >>, << "1", "/", "2", "/", "3" >>,
      << "-", "1", "/", "2" >> }

ShotTexts == { << "1", "2" >>, << "3" >>, << "-", "1" >> }

DistanceTexts ==
    { << "1", ".", "2", " ", "k", "m" >>, << "3", "%" >>, << "-", "3", "%" >>,
      << "-", "3", "k", "m" >>, << "%", "-", "1" >>, << "-", ".", "2" >>,
      << "-", "1", ".", "2" >> }

StatRows ==
    { [name |-> "penalties", home |-> h, away |-> a] : h \in PenaltyTexts, a \in PenaltyTexts }
    \cup { [name |-> "total_shots", home |-> h, away |-> a] : h \in ShotTexts, a \in { << "3" >> } }
    \cup { [name |-> "distance", home |-> h, away |-> h] : h \in DistanceTexts }

\* The pages tried: no statistics row, one row, or a shots and a penalties row.
StatPages ==
    { << >> } \cup { << r >> : r \in StatRows }
    \cup { << r, q >> : r \in {x \in StatRows : x.name = "total_shots"},
                        q \in {x \in StatRows : x.name = "penalties" /\ x.home = x.away} }

\* The loop of extract_team_stats over the rows: the dict, keyed by
\* (side, name), with the cleaned values.
RECURSIVE ExtractRows(_, _)
ExtractRows(stat_rows, stats) ==
    IF stat_rows = << >> THEN stats
    ELSE LET row == Head(stat_rows)
             home_value == clean_stat_value(Strip(row.home))
             away_value == clean_stat_value(Strip(row.away))
         IN  ExtractRows(Tail(stat_rows),
                 [k \in DOMAIN stats \cup {<< "home", row.name >>, << "away", row.name >>} |->
                     IF k = << "home", row.name >> THEN home_value
                     ELSE IF k = << "away", row.name >> THEN away_value
                     ELSE stats[k]])

\* dict.get(key, default)
DictGet(d, key, default) == IF key \in DOMAIN d THEN d[key] ELSE default

\* d with d[key] = value
DictSet(d, key, value) ==
    [k \in DOMAIN d \cup {key} |-> IF k = key THEN value ELSE d[k]]

\* The first of keys that the dict has for the home side, or "" for none.
RECURSIVE FirstKey(_, _)
FirstKey(stats_dict, keys) ==
    IF keys = << >> THEN ""
    ELSE IF << "home", Head(keys) >> \in DOMAIN stats_dict THEN Head(keys)
    ELSE FirstKey(stats_dict, Tail(keys))

\* Lines 460-466 and 469-475: goals and attempts from one side's value.
PenaltyParts(v) ==
    IF v.t = "str" /\ HasChar(v.s, "/")
    THEN LET parts == Split(v.s, "/")
         IN  [goals |-> IF IsDigitStr(Strip(parts[1])) THEN IntOf(Strip(parts[1])) ELSE 0,
              attempts |-> IF IsDigitStr(Strip(parts[2])) THEN IntOf(Strip(parts[2])) ELSE 0]
    ELSE [goals |-> 0, attempts |-> 0]

\* map_specific_stats(stats_dict): the shots and the penalties entries
\* (shots on target, free kicks and distance are mapped the way shots are).
map_specific_stats(stats_dict) ==
    LET shot_key == FirstKey(stats_dict, << "total_shots", "shots", "shot_attempts" >>)
        with_shots ==
            IF shot_key # ""
            THEN DictSet(DictSet(stats_dict, << "home", "shots" >>, stats_dict[<< "home", shot_key >>]),
                         << "away", "shots" >>, stats_dict[<< "away", shot_key >>])
            ELSE IF << "home", "shots" >> \notin DOMAIN stats_dict
            THEN DictSet(DictSet(stats_dict, << "home", "shots" >>, IntValue(0)),
                         << "away", "shots" >>, IntValue(0))
            ELSE stats_dict
        penalty_key == FirstKey(with_shots, << "penalties", "penalty_kicks", "penalty" >>)
        home == IF penalty_key = "" THEN [goals |-> 0, attempts |-> 0]
                ELSE PenaltyParts(DictGet(with_shots, << "home", penalty_key >>,
                                          StrValue(<< "0", "/", "0" >>)))
        away == IF penalty_key = "" THEN [goals |-> 0, attempts |-> 0]
                ELSE PenaltyParts(DictGet(with_shots, << "away", penalty_key >>,
                                          StrValue(<< "0", "/", "0" >>)))
    IN  DictSet(DictSet(DictSet(DictSet(with_shots,
            << "home", "penalty_goals" >>, IntValue(home.goals)),
            << "home", "penalty_attempts" >>, IntValue(home.attempts)),
            << "away", "penalty_goals" >>, IntValue(away.goals)),
            << "away", "penalty_attempts" >>, IntValue(away.attempts))

\* extract_team_stats(driver) on a page with the rows stat_rows: {} when the
\* page shows no row, else the cleaned rows with the mapped entries.
extract_team_stats(stat_rows) ==
    IF stat_rows = << >> THEN [k \in {} |-> IntValue(0)]
    ELSE map_specific_stats(ExtractRows(stat_rows, [k \in {} |-> IntValue(0)]))

\* Lines 178-188: a string value that int() accepts becomes an int, one
\* with a point that float() accepts a float.
Validate(v) ==
    IF v.t # "str" THEN v
    ELSE IF HasChar(v.s, ".")
    THEN (IF IsFloatStr(v.s) THEN FloatValue(Strip(v.s)) ELSE v)
    ELSE IF IsIntStr(v.s) THEN IntValue(SignedIntOf(v.s))
    ELSE v

\* The two records scrape_team_match_stats returns for a page that shows
\* the score home_goals - away_goals and the rows stat_rows.
MatchRecords(home_goals, away_goals, stat_rows) ==
    LET extracted == extract_team_stats(stat_rows)
        stats_dict == [k \in DOMAIN extracted |-> Validate(extracted[k])]
        record(side, gf, ga) ==
            [side |-> side, gf |-> gf, ga |-> ga,
             sh |-> DictGet(stats_dict, << side, "shots" >>, IntValue(0)),
             pk |-> DictGet(stats_dict, << side, "penalty_goals" >>, IntValue(0)),
             pkatt |-> DictGet(stats_dict, << side, "penalty_attempts" >>, IntValue(0))]
    IN  << record("home", home_goals, away_goals), record("away", away_goals, home_goals) >>

(* ------------- scraper: the calls that use a WebDriver ---------------- *)

\* max_retries of single_game_scraper.
MaxRetries == 3

\* Mutant of MayRetry: one attempt more.
MayRetryInclusive(retry_count) == retry_count <= MaxRetries

\* while retry_count < max_retries
MayRetry(retry_count) == retry_count < MaxRetries

\* The wait after a failed or empty attempt: 2 * retry_count seconds when
\* another attempt follows, none after the last.
RetryWait(retry_count) ==
    IF retry_count < MaxRetries THEN << 2 * retry_count >> ELSE << >>

\* Mutant of QuitsAtExit: the driver is quit only when a result was built.
QuitsOnlyOnSuccess(close_driver, outcome) ==
    IF close_driver /\ outcome = "ok" THEN 1 ELSE 0

\* finally: if close_driver: driver.quit() -- on every way out of the try.
QuitsAtExit(close_driver, outcome) == IF close_driver THEN 1 ELSE 0

(* ---------------- preprocessing/preprocessing_pipeline.py ------------- *)
(* A Date cell is a string of digits, ddmm followed by the digits of the    *)
(* year that the page showed: 8 characters when complete, 7 when the last   *)
(* digit is missing, 6 when two are.                                        *)

\* The file name of a season's data, "L_23-24.x".
SeasonFile == << "L", "_", "2", "3", "-", "2", "4", ".", "x" >>

\* filename.split('_')[1].split('-')[0][1] and ...split('-')[1][1]
YearPart1(filename) == Split(Split(filename, "_")[2], "-")[1][2]
YearPart2(filename) == Split(Split(filename, "_")[2], "-")[2][2]

\* The Date cells tried: day 01 of months 1, 2, 12, with 2, 3 or 4 digits
\* of the year.
DateTexts ==
    { << "0", "1" >> \o mm \o yy :
          mm \in { << "0", "1" >>, << "0", "2" >>, << "1", "2" >> },
          yy \in { << "2", "0" >>, << "2", "0", "2" >>, << "2", "0", "2", "3" >> } }

MaxDates == 3

\* last_month before the first 7-character row.
NoMonthYet == 100 * 100

\* int(row['Date'][2:4])
MonthOf(date) == IntOf(SubSeq(date, 3, 4))

\* The loop of fix_dates from row k on: new_dates.
RECURSIVE FixDatesLoop(_, _, _, _, _, _)
FixDatesLoop(rows, k, flag, last_month, new_dates, filename) ==
    IF k > Len(rows) THEN new_dates
    ELSE IF Len(rows[k]) = 8
    THEN FixDatesLoop(rows, k + 1, flag, last_month, Append(new_dates, rows[k]), filename)
    ELSE IF Len(rows[k]) = 7
    THEN LET month == MonthOf(rows[k])
             still == flag /\ ~(month > last_month)
             new_date == Append(rows[k], IF still THEN YearPart2(filename)
                                         ELSE YearPart1(filename))
         IN  FixDatesLoop(rows, k + 1, still, month, Append(new_dates, new_date), filename)
    ELSE FixDatesLoop(rows, k + 1, flag, last_month, new_dates, filename)

\* fix_dates(df, filename): df['Date'] = new_dates raises ValueError when
\* the list is not as long as the frame.
fix_dates(rows, filename) ==
    LET new_dates == FixDatesLoop(rows, 1, TRUE, NoMonthYet, << >>, filename)
    IN  IF Len(new_dates) = Len(rows)
        THEN [Date |-> new_dates, raised |-> ""]
        ELSE [Date |-> rows, raised |-> "ValueError"]

(* ---------------- scraping: full_league_scraper.py and ---------------- *)
(* ---------------------- its sofascore_scraper.py ---------------------- *)
(* A league is the sequence of result pages the PREVIOUS button walks       *)
(* through, newest first; a page is the sequence of its date elements in    *)
(* the order the loop visits them (last element first).  An element is      *)
(* given by its kind: "time" shows a time of day, "after" a date after      *)
(* final_date, "in" a date within [initial_date, final_date], "in_nohref"   *)
(* such a date whose anchor has no href, "before" a date before             *)
(* initial_date.                                                            *)

MaxPages == 2
MaxPageLen == 2

EntryKinds == {"time", "after", "in", "in_nohref", "before"}

\* The site lists matches by date: along the visit the dates do not grow.
KindRank(k) ==
    CASE k \in {"time", "after"} -> 0
      [] k \in {"in", "in_nohref"} -> 1
      [] OTHER -> 2

\* The concatenation of a sequence of sequences.
RECURSIVE Flatten(_)
Flatten(ss) == IF ss = << >> THEN << >> ELSE Head(ss) \o Flatten(Tail(ss))

\* The pages and leagues tried: 1..MaxPages pages of 1..MaxPageLen elements.
Pages == UNION { [1..m -> EntryKinds] : m \in 1..MaxPageLen }
Leagues == UNION { [1..n -> Pages] : n \in 1..MaxPages }

\* The href of element k of page p: every match has an url of its own.
Url(p, k) == << p, k >>

\* The leagues whose dates are ordered along the visit.
OrderedLeagues ==
    { lg \in Leagues :
        LET visit == Flatten(lg)
        IN  \A a, b \in 1..Len(visit) :
                a < b => KindRank(visit[a]) <= KindRank(visit[b]) }

\* The for loop of navigate_games_within_dates over page number p, from element
\* k on: the round collected so far, and how the loop ends ("done": every
\* element visited, "stale": StaleElementReferenceException at element
\* stale_at, "before": a date before initial_date was met).
RECURSIVE ScanPage(_, _, _, _, _)
ScanPage(page, p, k, current_round, stale_at) ==
    IF k > Len(page) THEN [current_round |-> current_round, ends |-> "done"]
    ELSE IF k = stale_at THEN [current_round |-> current_round, ends |-> "stale"]
    ELSE CASE page[k] = "time" -> ScanPage(page, p, k + 1, current_round, stale_at)
           [] page[k] = "after" -> ScanPage(page, p, k + 1, current_round, stale_at)
           [] page[k] = "in" ->
                ScanPage(page, p, k + 1, Append(current_round, Url(p, k)), stale_at)
           [] page[k] = "in_nohref" -> ScanPage(page, p, k + 1, current_round, stale_at)
           [] OTHER -> [current_round |-> current_round, ends |-> "before"]

\* rounds_matrix.append(current_round) under 'if current_round:'.
AppendRound(rounds_matrix, current_round) ==
    IF current_round # << >> THEN Append(rounds_matrix, current_round) ELSE rounds_matrix

\* How the iteration ends after the for loop: the branch taken at lines
\* 84-88 or 93-114 and what it hands to scraping_caller_for_rounds.
NavigateEnd(nav, cur, rounds, ends, prev_button, raises1, raises2) ==
    IF ends = "before"
    THEN \* lines 84-88
         [rounds_matrix |-> rounds, current_round |-> cur,
          passed |-> nav.passed \o Flatten(rounds),
          ends |-> IF raises1 THEN "raised" ELSE "returned"]
    ELSE CASE prev_button = "previous" ->
                    \* lines 98-103
                    [rounds_matrix |-> rounds, current_round |-> << >>,
                     passed |-> nav.passed, ends |-> "next"]
               [] prev_button = "click_raises" ->
                    \* line 102 raises after lines 99-101: lines 109-114
                    [rounds_matrix |-> rounds, current_round |-> << >>,
                     passed |-> nav.passed \o Flatten(rounds),
                     ends |-> IF raises1 THEN "raised" ELSE "returned"]
               [] prev_button = "other" /\ cur = << >> ->
                    \* lines 104-108, current_round empty: no call
                    [rounds_matrix |-> nav.rounds_matrix, current_round |-> cur,
                     passed |-> nav.passed, ends |-> "returned"]
               [] prev_button = "other" /\ cur # << >> /\ ~raises1 ->
                    \* lines 104-108
                    [rounds_matrix |-> rounds, current_round |-> cur,
                     passed |-> nav.passed \o Flatten(rounds), ends |-> "returned"]
               [] prev_button = "other" /\ cur # << >> /\ raises1 ->
                    \* line 107 raises inside the try: lines 109-114 append
                    \* the round again and call again
                    LET again == AppendRound(rounds, cur)
                    IN  [rounds_matrix |-> again, current_round |-> cur,
                         passed |-> nav.passed \o Flatten(rounds) \o Flatten(again),
                         ends |-> IF raises2 THEN "raised" ELSE "returned"]
               [] OTHER ->
                    \* the lookup raises: lines 109-114
                    [rounds_matrix |-> rounds, current_round |-> cur,
                     passed |-> nav.passed \o Flatten(rounds),
                     ends |-> IF raises1 THEN "raised" ELSE "returned"]

\* One iteration of the while loop of navigate_games_within_dates on page
\* number p, from the state nav = [rounds_matrix, current_round, passed]:
\* passed is the sequence of the urls handed to scraping_caller_for_rounds
\* so far.  prev_button is what the PREVIOUS lookup gives ("previous",
\* "other" text, "raises", or "click_raises" when the click on it raises);
\* raises1 and raises2 say whether the first and the second call of
\* scraping_caller_for_rounds of the iteration raise (to_excel).  ends is
\* "next" (the loop goes on with the page before), "returned" or "raised".
NavigateIteration(nav, page, p, stale_at, prev_button, raises1, raises2) ==
    LET scan == ScanPage(page, p, 1, nav.current_round, stale_at)
        cur == scan.current_round
        rounds == AppendRound(nav.rounds_matrix, cur)
    IN  NavigateEnd(nav, cur, rounds, scan.ends, prev_button, raises1, raises2)

(* --------------------------- state machine ---------------------------- *)

VARIABLES
    df,           \* the caller's table object: its rows
    schema,       \* its columns and dtypes, and the process's set order
    target_date,  \* the target (cutoff) date of the calls
    alpha,        \* the decay parameter of the calls, in tenths
    last,         \* the last call: its input and everything it produced
    prev,         \* what the call before it emitted
    team_stats_df,  \* the team table
    form,         \* the last team-form call: its arguments and its result
    scrape,       \* the team scraper: the call in progress and what it did
    league,       \* the first scrapers: the run of main and its drivers
    browser,      \* a call that uses a WebDriver: its position and drivers
    dates         \* the Date column handed to fix_dates and what it returned

playerVars == << df, schema, target_date, alpha, last, prev >>
teamVars == << team_stats_df, form >>
scraperVars == << scrape, league, browser, dates >>
vars == << df, schema, target_date, alpha, last, prev, team_stats_df, form, scrape, league, browser, dates >>

NoCall ==
    [ op |-> "none", input |-> << >>,
      df_train |-> << >>, df_val |-> << >>,
      feature_cols |-> << >>, raised |-> "", common_cols |-> << >>,
      pair_cols |-> << >>,
      player_ids |-> << >>, aggregated_features |-> << >>, target_values |-> << >>,
      ret |-> "", latent |-> Encoder(NoVector), warning |-> "", encoder_in |-> << >>,
      feature_df |-> << >> ]

\* What a call hands back, without the tables it read.
Emitted(call) ==
    [call EXCEPT !.input = << >>, !.df_train = << >>, !.df_val = << >>,
                 !.feature_df = << >>]

\* No team-form call made yet.
NoTeamCall ==
    [ op |-> "none", table |-> << >>, team_name |-> "", teams |-> << >>,
      target_date |-> 0, num_matches |-> 0, weighted |-> TRUE, alpha |-> 0,
      team_form |-> << >>, stats |-> EmptyStats, compiled |-> << >> ]

\* The Date column before any row is loaded.
NoDates == [ pc |-> "load", rows |-> << >>, Date |-> << >>, raised |-> "" ]

\* No call that uses a WebDriver yet.  created and quits count the drivers
\* the call created and the quit() calls on them, given_quits the quit()
\* calls on a driver the caller passed in.
NoBrowser ==
    [ fn |-> "", pc |-> "idle", api |-> "", given |-> FALSE,
      created |-> 0, quits |-> 0, given_quits |-> 0,
      retry_count |-> 0, attempts |-> << >>, waits |-> << >>,
      ret |-> "", records |-> << >>, stat_rows |-> << >>, exit |-> "" ]

\* No run of a first scraper yet: nothing imported, no driver.
NoLeague ==
    [ prog |-> "", pc |-> "idle", pages |-> << >>, p |-> 1,
      rounds_matrix |-> << >>, current_round |-> << >>,
      collected |-> << >>, passed |-> << >>,
      navigate |-> "", driver |-> "none", imported_driver |-> "none",
      ended |-> "" ]

\* No scraper call made yet.
NoScrape ==
    [ pc |-> "idle", fn |-> "", team_name |-> << >>, team_names |-> << >>,
      i |-> 0, all_match_data |-> << >>, log |-> << >>, errors |-> << >>,
      api_matches |-> << >>, browser_started |-> FALSE,
      search |-> [raises |-> FALSE, results |-> << >>],
      events |-> [has_key |-> FALSE, events |-> << >>],
      ret |-> << >>, raised |-> "" ]

Init ==
    /\ team_stats_df = << >>
    /\ form = NoTeamCall
    /\ scrape = NoScrape
    /\ league = NoLeague
    /\ browser = NoBrowser
    /\ dates = NoDates
    /\ df = << >>
    /\ schema \in Schemas
    /\ target_date \in TargetDates
    /\ alpha \in Alphas
    /\ last = NoCall
    /\ prev = NoCall

\* The data collaborator appends one row to the table before it is handed on.
LoadRow ==
    /\ last.op = "none"
    /\ Len(df) < MaxRows
    /\ \E p \in PlayerIds, d \in Days :
          \E v \in SchemaRowValues(p, schema) :
              LET r == [idx |-> Len(df), Player_ID |-> p, Date |-> d, val |-> v]
              IN  /\ IsBadRow(r) => BadCount(df) < MaxBad
                  /\ df # << >> => MayFollow(df[Len(df)], r)
                  /\ df' = Append(df, r)
    /\ UNCHANGED << schema, target_date, alpha, last, prev >>
    /\ UNCHANGED teamVars
    /\ UNCHANGED scraperVars

\* clean_dataset(df), called on its own: the caller's table is the one
\* changed.
CleanDataset ==
    /\ df # << >>
    /\ df' = clean_dataset(df)
    /\ last' = [NoCall EXCEPT !.op = "clean_dataset", !.input = df]
    /\ prev' = Emitted(last)
    /\ UNCHANGED << schema, target_date, alpha >>
    /\ UNCHANGED teamVars
    /\ UNCHANGED scraperVars

\* dataset._init_(df, target_date, alpha)
Build ==
    /\ df # << >>
    /\ \E b \in {BuildDataset(df, schema, target_date, alpha)} :
           /\ df' = b.df
           /\ last' = [NoCall EXCEPT
                         !.op = "build", !.input = df,
                         !.df_train = b.df_train, !.df_val = b.df_val,
                         !.feature_cols = b.feature_cols, !.raised = b.raised,
                         !.common_cols = b.common_cols, !.pair_cols = b.pair_cols,
                         !.player_ids = b.player_ids,
                         !.aggregated_features = b.aggregated_features,
                         !.target_values = b.target_values]
    /\ prev' = Emitted(last)
    /\ UNCHANGED << schema, target_date, alpha >>
    /\ UNCHANGED teamVars
    /\ UNCHANGED scraperVars

\* get_player_latent_vector(model, player_df, target_date, alpha), called on
\* a table that holds the rows of one player.
Latent ==
    /\ Cardinality(Ids(df)) = 1
    /\ \E g \in {GetPlayerLatentVector(df, schema, target_date, alpha)} :
           last' = [NoCall EXCEPT
                      !.op = "latent", !.input = df,
                      !.ret = g.ret, !.latent = g.latent,
                      !.warning = g.warning, !.encoder_in = g.encoder_in,
                      !.feature_df = g.feature_df]
    /\ prev' = Emitted(last)
    /\ UNCHANGED << df, schema, target_date, alpha >>
    /\ UNCHANGED teamVars
    /\ UNCHANGED scraperVars

Next == LoadRow \/ CleanDataset \/ Build \/ Latent

Spec == Init /\ [][Next]_vars

(* ---------------------- team-form state machine ----------------------- *)

\* Largest number of matches the team table holds.
MaxMatches == 3

\* The lists of team names handed to compile_team_recent_form.
TeamLists == { << >>, << "A" >>, << "A", "B" >>, << "B", "A" >>, << "A", "A" >> }

TeamInit ==
    /\ team_stats_df = << >>
    /\ form = NoTeamCall
    /\ scrape = NoScrape
    /\ league = NoLeague
    /\ browser = NoBrowser
    /\ dates = NoDates
    /\ df = << >>
    /\ schema = DefaultSchema
    /\ target_date = 8
    /\ alpha = 1
    /\ last = NoCall
    /\ prev = NoCall

\* The scraper and preprocess_team_stats add one match row to the team
\* table: a team plays at most one match on a date.
LoadMatch ==
    /\ form.op = "none"
    /\ Len(team_stats_df) < MaxMatches
    /\ \E t \in TeamNames, d \in Days :
          \E g \in TeamGoals(t) :
              /\ \A i \in 1..Len(team_stats_df) :
                    ~(team_stats_df[i].team = t /\ team_stats_df[i].date = d)
              /\ team_stats_df' = Append(team_stats_df,
                    [idx |-> Len(team_stats_df), team |-> t, date |-> d,
                     gf |-> g, result |-> ResultOf(g)])
    /\ UNCHANGED form
    /\ UNCHANGED playerVars
    /\ UNCHANGED scraperVars

\* get_team_form(team_stats_df, team_name, target_date, num_matches).  The
\* team-form functions keep no state and leave the table as it is, so a
\* behaviour follows one call on the loaded table.
GetTeamForm ==
    /\ form.op = "none"
    /\ \E t \in TeamNames, target \in TeamTargets, n \in 0..MaxWindow :
          form' = [NoTeamCall EXCEPT
                     !.op = "get_team_form", !.table = team_stats_df,
                     !.team_name = t, !.target_date = target, !.num_matches = n,
                     !.team_form = get_team_form(team_stats_df, t, target, n)]
    /\ UNCHANGED team_stats_df
    /\ UNCHANGED playerVars
    /\ UNCHANGED scraperVars

\* aggregate_team_form(team_form_df, weighted, alpha), on the table at hand.
AggregateTeamForm ==
    /\ form.op = "none"
    /\ \E w \in BOOLEAN, a \in TeamAlphas :
          form' = [NoTeamCall EXCEPT
                     !.op = "aggregate_team_form", !.table = team_stats_df,
                     !.weighted = w, !.alpha = a,
                     !.stats = aggregate_team_form(team_stats_df, w, a)]
    /\ UNCHANGED team_stats_df
    /\ UNCHANGED playerVars
    /\ UNCHANGED scraperVars

\* compile_team_recent_form(team_stats_df, teams, target_date, num_matches)
CompileTeamRecentForm ==
    /\ form.op = "none"
    /\ \E ts \in TeamLists, target \in TeamTargets, n \in 0..MaxWindow :
          form' = [NoTeamCall EXCEPT
                     !.op = "compile_team_recent_form", !.table = team_stats_df,
                     !.teams = ts, !.target_date = target, !.num_matches = n,
                     !.compiled = compile_team_recent_form(team_stats_df, ts, target, n)]
    /\ UNCHANGED team_stats_df
    /\ UNCHANGED playerVars
    /\ UNCHANGED scraperVars

TeamNext == LoadMatch \/ GetTeamForm \/ AggregateTeamForm \/ CompileTeamRecentForm

TeamSpec == TeamInit /\ [][TeamNext]_vars

(* --------------------- team-scraper state machine --------------------- *)

ScrapeInit ==
    /\ scrape = NoScrape
    /\ league = NoLeague
    /\ browser = NoBrowser
    /\ dates = NoDates
    /\ team_stats_df = << >>
    /\ form = NoTeamCall
    /\ df = << >>
    /\ schema = DefaultSchema
    /\ target_date = 8
    /\ alpha = 1
    /\ last = NoCall
    /\ prev = NoCall

\* get_team_matches_api(team_name, num_matches), called on its own.
GetTeamMatchesApi ==
    /\ scrape.pc = "idle"
    /\ \E t \in TeamQueries, sa \in SearchAnswers, ea \in EventAnswers :
          scrape' = [NoScrape EXCEPT
                       !.pc = "returned", !.fn = "get_team_matches_api",
                       !.team_name = t, !.search = sa, !.events = ea,
                       !.ret = get_team_matches_api(t, sa, ea)]
    /\ UNCHANGED << playerVars, teamVars, league, browser, dates >>

\* get_team_last_matches(team_name, num_matches), as main() of
\* team_stats_scraper.py calls it: it returns, or the error leaves it.
GetTeamLastMatches ==
    /\ scrape.pc = "idle"
    /\ \E t \in TeamQueries, sa \in SearchAnswers, ea \in EventAnswers :
          \E r \in {get_team_last_matches(t, sa, ea)} :
              scrape' = [NoScrape EXCEPT
                           !.pc = IF r.raised = "" THEN "returned" ELSE "raised",
                           !.fn = "get_team_last_matches",
                           !.team_name = t, !.search = sa, !.events = ea,
                           !.api_matches = r.api_matches,
                           !.browser_started = r.browser_started,
                           !.ret = r.matches, !.raised = r.raised]
    /\ UNCHANGED << playerVars, teamVars, league, browser, dates >>

\* scrape_team_data(team_names, num_matches, output_dir) is called:
\* os.makedirs (line 30) lies outside every try, so its error leaves the
\* function before the loop.
ScrapeTeamData ==
    /\ scrape.pc = "idle"
    /\ \E ts \in TeamNameLists, makedirs_raises \in BOOLEAN :
          scrape' = [NoScrape EXCEPT
                       !.pc = IF makedirs_raises THEN "raised" ELSE "loop",
                       !.raised = IF makedirs_raises THEN "OSError" ELSE "",
                       !.fn = "scrape_team_data", !.team_names = ts]
    /\ UNCHANGED << playerVars, teamVars, league, browser, dates >>

\* One iteration of its loop: the attempt for team i, the team's file, the
\* wait; an exception ends the iteration at the except clause.
ScrapeTeam ==
    /\ scrape.pc = "loop"
    /\ scrape.i < Len(scrape.team_names)
    /\ \E sa \in SearchAnswers, ea \in EventAnswers, to_csv_raises \in BOOLEAN :
          \E it \in {ScrapeIteration(scrape.i, Len(scrape.team_names),
                          get_team_last_matches(scrape.team_names[scrape.i + 1], sa, ea),
                          to_csv_raises)} :
              scrape' = [scrape EXCEPT
                           !.i = scrape.i + 1,
                           !.log = scrape.log \o it.log,
                           !.errors = Append(scrape.errors, it.error),
                           !.all_match_data = scrape.all_match_data \o it.data]
    /\ UNCHANGED << playerVars, teamVars, league, browser, dates >>

\* After the last team (lines 60-69): with data collected the combined
\* frame is written and returned, and an error of to_csv (line 64, outside
\* every try) leaves the function; without data an empty frame is returned.
ScrapeReturn ==
    /\ scrape.pc = "loop"
    /\ scrape.i = Len(scrape.team_names)
    /\ \E to_csv_raises \in BOOLEAN :
          scrape' = IF scrape.all_match_data # << >> /\ to_csv_raises
                    THEN [scrape EXCEPT !.pc = "raised", !.raised = "OSError"]
                    ELSE [scrape EXCEPT !.pc = "returned",
                                        !.ret = scrape.all_match_data]
    /\ UNCHANGED << playerVars, teamVars, league, browser, dates >>

ScrapeNext ==
    GetTeamMatchesApi \/ GetTeamLastMatches \/ ScrapeTeamData \/ ScrapeTeam \/ ScrapeReturn

ScrapeSpec == ScrapeInit /\ [][ScrapeNext]_vars

(* -------------------- first-scrapers state machine -------------------- *)

LeagueInit ==
    /\ league = NoLeague
    /\ browser = NoBrowser
    /\ dates = NoDates
    /\ scrape = NoScrape
    /\ team_stats_df = << >>
    /\ form = NoTeamCall
    /\ df = << >>
    /\ schema = DefaultSchema
    /\ target_date = 8
    /\ alpha = 1
    /\ last = NoCall
    /\ prev = NoCall

\* full_league_scraper.py is run: importing it creates the driver of
\* sofascore_scraper.py (line 20) and its own (line 31); main calls
\* search_country_and_league, which reaches navigate_games_within_dates or
\* raises RuntimeError on the way (page load, country, league, season).
FullLeagueMain ==
    /\ league.pc = "idle"
    /\ \/ \E pages \in OrderedLeagues :
             league' = [NoLeague EXCEPT
                          !.prog = "full_league_scraper", !.pc = "navigate",
                          !.pages = pages,
                          !.driver = "open", !.imported_driver = "open"]
       \/ league' = [NoLeague EXCEPT
                       !.prog = "full_league_scraper", !.pc = "terminated",
                       !.driver = "open", !.imported_driver = "open",
                       !.ended = "raised"]
    /\ UNCHANGED << playerVars, teamVars, scrape, browser, dates >>

\* One iteration of the while loop of navigate_games_within_dates.  When
\* the function returns, main goes on to driver.quit() (line 229); an
\* error that leaves it is re-raised by search_country_and_league (line
\* 209) and ends main.
NavigatePage ==
    /\ league.pc = "navigate"
    /\ LET page == league.pages[league.p]
           buttons == IF league.p < Len(league.pages)
                      THEN {"previous", "click_raises", "other", "raises"}
                      ELSE {"other", "raises"}
       IN  \/ \* the wait of line 62 times out
              league' = [league EXCEPT !.pc = "terminated", !.navigate = "raised",
                                       !.ended = "raised"]
           \/ \E stale_at \in 0..Len(page), prev_button \in buttons,
                   raises1 \in BOOLEAN, raises2 \in BOOLEAN :
                  \E it \in {NavigateIteration(league, page, league.p, stale_at,
                                                prev_button, raises1, raises2)} :
                      league' = [league EXCEPT
                          !.rounds_matrix = it.rounds_matrix,
                          !.current_round = it.current_round,
                          !.collected = league.collected \o
                              ScanPage(page, league.p, 1, << >>, stale_at).current_round,
                          !.passed = it.passed,
                          !.p = IF it.ends = "next" THEN league.p + 1 ELSE league.p,
                          !.pc = IF it.ends = "next" THEN "navigate" ELSE "terminated",
                          !.navigate = IF it.ends = "next" THEN "" ELSE it.ends,
                          !.driver = IF it.ends = "returned" THEN "quit" ELSE "open",
                          !.ended = IF it.ends = "next" THEN "" ELSE it.ends]
    /\ UNCHANGED << playerVars, teamVars, scrape, browser, dates >>

\* sofascore_scraper.py of the first scrapers is run: the import creates
\* its driver (line 26), main scrapes one game, writes the csv and quits
\* the driver; driver.get (line 121, outside the try) or to_csv may raise.
SingleGameMain ==
    /\ league.pc = "idle"
    /\ \E get_raises \in BOOLEAN, to_csv_raises \in BOOLEAN :
          league' = [NoLeague EXCEPT
                       !.prog = "sofascore_scraper", !.pc = "terminated",
                       !.driver = IF get_raises \/ to_csv_raises THEN "open" ELSE "quit",
                       !.ended = IF get_raises \/ to_csv_raises THEN "raised" ELSE "returned"]
    /\ UNCHANGED << playerVars, teamVars, scrape, browser, dates >>

LeagueNext == FullLeagueMain \/ NavigatePage \/ SingleGameMain

LeagueSpec == LeagueInit /\ [][LeagueNext]_vars

(* ---------------------- WebDriver state machine ----------------------- *)

BrowserInit ==
    /\ browser = NoBrowser
    /\ dates = NoDates
    /\ league = NoLeague
    /\ scrape = NoScrape
    /\ team_stats_df = << >>
    /\ form = NoTeamCall
    /\ df = << >>
    /\ schema = DefaultSchema
    /\ target_date = 8
    /\ alpha = 1
    /\ last = NoCall
    /\ prev = NoCall

\* single_game_scraper(url) up to its retry loop: the API approach (data,
\* an empty frame, or an error, which get_match_data_from_api turns into an
\* empty frame), then create_driver: it returns a driver, or it catches
\* WebDriverException and calls sys.exit(1), or another error leaves it.
SingleGameScraper ==
    /\ browser.pc = "idle"
    /\ \E api \in {"data", "empty", "error"},
          create \in {"ok", "WebDriverException", "other"} :
          browser' =
              IF api = "data"
              THEN [NoBrowser EXCEPT !.fn = "single_game_scraper", !.api = api,
                                     !.pc = "returned", !.ret = "data",
                                     !.exit = "returned"]
              ELSE CASE create = "ok" ->
                          [NoBrowser EXCEPT !.fn = "single_game_scraper", !.api = api,
                                            !.pc = "retry", !.created = 1]
                     [] create = "WebDriverException" ->
                          \* SystemExit is not an Exception: line 834 does
                          \* not catch it, the finally finds driver = None
                          [NoBrowser EXCEPT !.fn = "single_game_scraper", !.api = api,
                                            !.pc = "exited", !.exit = "SystemExit"]
                     [] OTHER ->
                          [NoBrowser EXCEPT !.fn = "single_game_scraper", !.api = api,
                                            !.pc = "returned", !.ret = "empty",
                                            !.exit = "returned"]
    /\ UNCHANGED << playerVars, teamVars, scrape, league, dates >>

\* One iteration of the retry loop: the page load and click_and_scrape
\* give data, an empty frame, or raise.
PageLoadAttempt ==
    /\ browser.pc = "retry"
    /\ MayRetry(browser.retry_count)
    /\ \E outcome \in {"data", "empty", "raises"} :
          browser' =
              IF outcome = "data"
              THEN [browser EXCEPT
                      !.attempts = Append(browser.attempts, outcome),
                      !.pc = "returned", !.ret = "data", !.exit = "returned",
                      !.quits = browser.quits + QuitsAtExit(browser.created > 0, "ok")]
              ELSE [browser EXCEPT
                      !.attempts = Append(browser.attempts, outcome),
                      !.retry_count = browser.retry_count + 1,
                      !.waits = browser.waits \o RetryWait(browser.retry_count + 1)]
    /\ UNCHANGED << playerVars, teamVars, scrape, league, dates >>

\* The loop condition fails: lines 831-832 return an empty frame.
RetriesExhausted ==
    /\ browser.pc = "retry"
    /\ ~MayRetry(browser.retry_count)
    /\ browser' = [browser EXCEPT
                      !.pc = "returned", !.ret = "empty", !.exit = "returned",
                      !.quits = browser.quits + QuitsAtExit(browser.created > 0, "empty")]
    /\ UNCHANGED << playerVars, teamVars, scrape, league, dates >>

\* scrape_team_match_stats(url, driver): with a driver of the caller or
\* one it creates (create_driver of this module may raise, before the
\* try); the page gives the two records, or an error inside the try gives
\* [].
ScrapeTeamMatchStats ==
    /\ browser.pc = "idle"
    /\ \E given \in BOOLEAN, create_raises \in BOOLEAN, outcome \in {"ok", "raises"},
          score \in {<< 2, 1 >>, << 0, 0 >>}, stat_rows \in StatPages :
          browser' =
              IF ~given /\ create_raises
              THEN [NoBrowser EXCEPT !.fn = "scrape_team_match_stats",
                                     !.pc = "raised", !.exit = "raised"]
              ELSE [NoBrowser EXCEPT
                      !.fn = "scrape_team_match_stats", !.given = given,
                      !.created = IF given THEN 0 ELSE 1,
                      !.stat_rows = IF outcome = "ok" THEN stat_rows ELSE << >>,
                      !.records = IF outcome = "ok"
                                  THEN MatchRecords(score[1], score[2], stat_rows)
                                  ELSE << >>,
                      !.ret = IF outcome = "ok" THEN "records" ELSE "empty",
                      !.quits = IF given THEN 0 ELSE QuitsAtExit(TRUE, outcome),
                      !.given_quits = IF given THEN QuitsAtExit(FALSE, outcome) ELSE 0,
                      !.pc = "returned", !.exit = "returned"]
    /\ UNCHANGED << playerVars, teamVars, scrape, league, dates >>

BrowserNext ==
    SingleGameScraper \/ PageLoadAttempt \/ RetriesExhausted \/ ScrapeTeamMatchStats

BrowserSpec == BrowserInit /\ [][BrowserNext]_vars

(* ----------------------- fix_dates state machine ---------------------- *)

DatesInit ==
    /\ dates = NoDates
    /\ browser = NoBrowser
    /\ league = NoLeague
    /\ scrape = NoScrape
    /\ team_stats_df = << >>
    /\ form = NoTeamCall
    /\ df = << >>
    /\ schema = DefaultSchema
    /\ target_date = 8
    /\ alpha = 1
    /\ last = NoCall
    /\ prev = NoCall

\* The scraper's season file gets one more row: its Date cell.
LoadDate ==
    /\ dates.pc = "load"
    /\ Len(dates.rows) < MaxDates
    /\ \E d \in DateTexts :
          dates' = [dates EXCEPT !.rows = Append(dates.rows, d)]
    /\ UNCHANGED << playerVars, teamVars, scrape, league, browser >>

\* fix_dates(df, filename) on the rows loaded.
FixDates ==
    /\ dates.pc = "load"
    /\ \E r \in {fix_dates(dates.rows, SeasonFile)} :
          dates' = [dates EXCEPT !.pc = "done", !.Date = r.Date, !.raised = r.raised]
    /\ UNCHANGED << playerVars, teamVars, scrape, league, browser >>

DatesNext == LoadDate \/ FixDates

DatesSpec == DatesInit /\ [][DatesNext]_vars

(* ------------------------ what the claims use ------------------------- *)

Range(s) == {s[i] : i \in 1..Len(s)}

\* The feature columns of the table at hand.
TableCols == SeqRange(schema.cols)

\* The rows of entity pid in table t dated strictly before the target.
OwnHistory(t, pid, target) ==
    SelectSeq(t, LAMBDA r : r.Player_ID = pid /\ r.Date < target)

\* A cell that holds a finite number (as a number or as a numeric string).
IsNumber(c) == c.kind \in {"num", "numstr"}

ValueOf(c) == c.num

AgeWeight(r, target, a) == NpExpNeg(a * (target - r.Date))

RECURSIVE WeightedValueSum(_, _, _, _)
WeightedValueSum(rows, col, target, a) ==
    IF rows = << >> THEN 0
    ELSE AgeWeight(Head(rows), target, a) * ValueOf(Head(rows).val[col])
            + WeightedValueSum(Tail(rows), col, target, a)

RECURSIVE WeightSum(_, _, _)
WeightSum(rows, target, a) ==
    IF rows = << >> THEN 0
    ELSE AgeWeight(Head(rows), target, a) + WeightSum(Tail(rows), target, a)

\* sum(w_i * v_i) / sum(w_i) over rows, as an exact fraction.
WeightedMean(rows, col, target, a) ==
    Rat(WeightedValueSum(rows, col, target, a), WeightSum(rows, target, a))

AllNumbers(rows) == \A i \in 1..Len(rows) : \A c \in TableCols : IsNumber(rows[i].val[c])

\* The rows whose cell in column col holds a finite number.
FiniteIn(rows, col) == SelectSeq(rows, LAMBDA r : IsNumber(r.val[col]))

\* The finite value v lies within 0.001 of m / 10000.
Near(v, m) ==
    /\ IsFinite(v)
    /\ Abs(10000 * v.num - m * v.den) <= 10 * v.den

(* -------------------------------- C1 ---------------------------------- *)

\* A clean row of pid on the target date.
PlainTargetRow(pid, target) ==
    [idx |-> MaxRows, Player_ID |-> pid, Date |-> target, val |-> [c \in TableCols |-> RowOf(Num(1), NumStr(1))[c]]]

\* C1 (leakage guard).  The aggregate of an entity depends only on that
\* entity's rows dated strictly before the target date: the builder gives
\* every entity it emits the aggregate it gives on the table that holds
\* nothing but that entity's earlier rows and one plain row on the target
\* date, and get_player_latent_vector hands the encoder what it hands it on
\* the table cut down to the earlier rows.  Two tables that agree on an
\* entity's earlier rows therefore yield the same aggregate, whatever rows
\* dated on or after the target date are added, removed or changed.
C1_LeakageGuard ==
    /\ last.op = "build" =>
          \A k \in 1..Len(last.player_ids) :
              LET pid == last.player_ids[k]
                  own == Append(OwnHistory(last.input, pid, target_date),
                                PlainTargetRow(pid, target_date))
                  b == BuildDataset(own, schema, target_date, alpha)
              IN  /\ b.player_ids = << pid >>
                  /\ b.aggregated_features[1] = last.aggregated_features[k]
    /\ last.op = "latent" =>
          LET pid == last.input[1].Player_ID
              g == GetPlayerLatentVector(OwnHistory(last.input, pid, target_date),
                                         schema, target_date, alpha)
          IN  g.ret = last.ret /\ g.encoder_in = last.encoder_in

\* A build that emitted an entity whose table also held a row of that entity
\* dated after the target date, with a value of its own.
C1_Witness ==
    /\ last.op = "build"
    /\ "goals" \in TableCols
    /\ last.player_ids # << >>
    /\ \E i \in 1..Len(last.input) :
          /\ last.input[i].Player_ID = last.player_ids[1]
          /\ last.input[i].Date > target_date
          /\ last.input[i].val["goals"] = Num(3)

(* -------------------------------- C2 ---------------------------------- *)

HasRowBefore(t, pid, target) ==
    \E i \in 1..Len(t) : t[i].Player_ID = pid /\ t[i].Date < target

HasRowOn(t, pid, target) ==
    \E i \in 1..Len(t) : t[i].Player_ID = pid /\ t[i].Date = target

\* C2 (eligibility).  The ids emitted by a build that ran to its end are
\* exactly the ids with at least one row before the target date and at
\* least one row on it.
C2_EligibilityExact ==
    (last.op = "build" /\ last.raised = "") =>
        Range(last.player_ids) =
            {p \in PlayerIds : /\ HasRowBefore(last.input, p, target_date)
                               /\ HasRowOn(last.input, p, target_date)}

(* -------------------------------- C3 ---------------------------------- *)

\* C3.  The history slice and the ground-truth slice of a build share no row.
C3_SlicesDisjoint ==
    last.op = "build" => Labels(last.df_train) \cap Labels(last.df_val) = {}

\* A build with rows in both slices.
C3_Witness ==
    /\ last.op = "build"
    /\ last.df_train # << >>
    /\ last.df_val # << >>

(* -------------------------------- C4 ---------------------------------- *)

\* The spec's scenario: alpha = 0.1 and exactly two earlier rows, of ages 14
\* and 7 days, with goals 1.0 and 3.0 (and no missing cell).
IsScenario(rows, target, a) ==
    /\ a = 1
    /\ "goals" \in TableCols
    /\ Len(rows) = 2
    /\ AllNumbers(rows)
    /\ \E i, j \in 1..2 :
          /\ target - rows[i].Date = 14 /\ rows[i].val["goals"] = Num(1)
          /\ target - rows[j].Date = 7 /\ rows[j].val["goals"] = Num(3)

\* v is sum(w_i * v_i) / sum(w_i) over rows with w_i = exp(-alpha * age_i).
\* When every float weight has underflowed to 0.0 the quotient of the real
\* weights is still a number, so a finite value is asked for.
IsWeightedMean(v, rows, col, target, a) ==
    IF WeightSum(rows, target, a) > 0
    THEN v = WeightedMean(rows, col, target, a)
    ELSE IsFinite(v)

\* For every emitted entity and every feature column the aggregated value is
\* the weighted mean over the entity's earlier rows, a row entering a
\* column's sums with the value it holds there (a row without a value in the
\* column has no v_i to enter with), in the builder and in
\* get_player_latent_vector.
WeightedMeanHolds ==
    /\ last.op = "build" =>
          \A k \in 1..Len(last.player_ids) : \A c \in TableCols :
              LET fin == FiniteIn(OwnHistory(last.input, last.player_ids[k],
                                             target_date), c)
              IN  fin # << >> =>
                      IsWeightedMean(last.aggregated_features[k][c], fin, c,
                                     target_date, alpha)
    /\ (last.op = "latent" /\ last.ret = "latent") =>
          \A c \in TableCols :
              LET fin == FiniteIn(OwnHistory(last.input, last.input[1].Player_ID,
                                             target_date), c)
              IN  fin # << >> =>
                      IsWeightedMean(last.encoder_in[1][c], fin, c,
                                     target_date, alpha)

\* The aggregated goals of the scenario lie within 0.001 of m / 10000, in
\* the builder and in get_player_latent_vector.
ScenarioGives(m) ==
    /\ last.op = "build" =>
          \A k \in 1..Len(last.player_ids) :
              IsScenario(OwnHistory(last.input, last.player_ids[k], target_date),
                         target_date, alpha)
                  => Near(last.aggregated_features[k]["goals"], m)
    /\ (last.op = "latent" /\ last.ret = "latent") =>
          (IsScenario(OwnHistory(last.input, last.input[1].Player_ID, target_date),
                      target_date, alpha)
              => Near(last.encoder_in[1]["goals"], m))

\* C4 (weighted mean).  For every entity with history and every feature
\* column the aggregated value is sum(w_i * v_i) / sum(w_i) over the
\* entity's rows strictly before the cutoff, in the builder and in
\* get_player_latent_vector, and the rows (age 14, value 1.0) and (age 7,
\* value 3.0) with alpha = 0.1 give approximately 2.3309.
C4_WeightedMean == WeightedMeanHolds /\ ScenarioGives(23309)

(* -------------------------------- C5 ---------------------------------- *)

\* C5 (NoHistory at inference).  When the table holds no row dated strictly
\* before the target date, get_player_latent_vector returns None after a
\* warning and hands nothing to the encoder.
C5_NoHistoryIsAbsent ==
    (last.op = "latent" /\ ~\E i \in 1..Len(last.input) : last.input[i].Date < target_date)
        => /\ last.ret = "None"
           /\ last.warning # ""
           /\ last.encoder_in = << >>

\* An inference call on a table whose rows all lie on or after the target.
C5_Witness ==
    /\ last.op = "latent"
    /\ last.input # << >>
    /\ \A i \in 1..Len(last.input) : last.input[i].Date >= target_date
    /\ \E i \in 1..Len(last.input) : last.input[i].Date = target_date
    /\ last.ret = "None"

(* -------------------------------- C6 ---------------------------------- *)

\* C6 (per-column missing-data policy).  A history row with a missing or
\* non-finite cell is left out of that column's weighted sum and weight total
\* only: every aggregated value is the weighted mean over the entity's
\* earlier rows that hold a finite number in that column, and an entity with
\* such a row and a complete row on the target date is emitted.
C6_PerColumnPolicy ==
    /\ last.op = "build" =>
          /\ \A p \in PlayerIds :
                ( /\ \E c \in TableCols :
                        FiniteIn(OwnHistory(last.input, p, target_date), c) # << >>
                  /\ \E i \in 1..Len(last.input) :
                        /\ last.input[i].Player_ID = p
                        /\ last.input[i].Date = target_date
                        /\ AllNumbers(<< last.input[i] >>) )
                    => p \in Range(last.player_ids)
          /\ \A k \in 1..Len(last.player_ids) : \A c \in TableCols :
                LET fin == FiniteIn(OwnHistory(last.input, last.player_ids[k],
                                               target_date), c)
                IN  (fin # << >> /\ WeightSum(fin, target_date, alpha) > 0) =>
                        last.aggregated_features[k][c]
                            = WeightedMean(fin, c, target_date, alpha)
    /\ (last.op = "latent" /\ last.ret = "latent") =>
          \A c \in TableCols :
              LET fin == FiniteIn(OwnHistory(last.input, last.input[1].Player_ID,
                                             target_date), c)
              IN  (fin # << >> /\ WeightSum(fin, target_date, alpha) > 0) =>
                      last.encoder_in[1][c] = WeightedMean(fin, c, target_date, alpha)

(* -------------------------------- C7 ---------------------------------- *)

\* C7.  No vector output by the builder (aggregate or target) and no vector
\* handed to the encoder holds NaN or an infinity.
C7_OutputsFinite ==
    /\ \A k \in 1..Len(last.player_ids) : \A c \in TableCols :
          /\ IsFinite(last.aggregated_features[k][c])
          /\ IsFinite(last.target_values[k][c])
    /\ \A i \in 1..Len(last.encoder_in) : \A c \in TableCols :
          IsFinite(last.encoder_in[i][c])

(* -------------------------------- C8 ---------------------------------- *)

\* C8.  A call (builder or inference) leaves the caller's table as it was:
\* the same rows, the same columns, the same cells.
C8_TableNotMutated == [][last'.op \in {"build", "latent"} => df' = df]_vars

(* -------------------------------- C9 ---------------------------------- *)

\* C9 (idempotence).  The second of two successive calls of the same
\* operation on the same table object, with the same target date and alpha,
\* yields the entity set and the vectors of the first.
C9_Idempotent ==
    (last.op \in {"build", "latent"} /\ last.op = prev.op) =>
        /\ last.player_ids = prev.player_ids
        /\ last.aggregated_features = prev.aggregated_features
        /\ last.target_values = prev.target_values
        /\ last.ret = prev.ret
        /\ last.encoder_in = prev.encoder_in
        /\ last.latent = prev.latent

(* -------------------------------- C10 --------------------------------- *)

\* C10 (single row).  For every positive alpha and every age, the aggregated
\* vector of an entity with exactly one earlier row equals that row in every
\* column (a cell read as the number it holds, a missing cell still
\* missing), in the builder and in get_player_latent_vector, which returns
\* a vector for such an entity.
C10_SingleRow ==
    /\ last.op = "build" =>
          \A k \in 1..Len(last.player_ids) :
              LET rows == OwnHistory(last.input, last.player_ids[k], target_date)
              IN  Len(rows) = 1 =>
                      \A c \in TableCols :
                          last.aggregated_features[k][c] = ToNumeric(rows[1].val[c])
    /\ last.op = "latent" =>
          LET rows == OwnHistory(last.input, last.input[1].Player_ID, target_date)
          IN  Len(rows) = 1 =>
                  /\ last.ret = "latent"
                  /\ \A c \in TableCols :
                        last.encoder_in[1][c] = ToNumeric(rows[1].val[c])

(* -------------------------------- C11 --------------------------------- *)

\* The history rows the last call gave a weight to: the builder's df_train,
\* the rows get_player_latent_vector kept after its date filter.
WeightedRows ==
    CASE last.op = "build" -> last.df_train
      [] last.op = "latent" -> LatentHistory(last.input, target_date)
      [] OTHER -> << >>

\* strict: every weight is above 0 and a greater age always gives a strictly
\* smaller weight.  Otherwise that is asked only of ages whose alpha * age
\* lies below the float64 underflow point of exp, and beyond it weights are
\* 0 or more and never grow with age.
WeightsHold(strict) ==
    LET rows == WeightedRows
        w(i) == Weight(rows[i], target_date, alpha)
        age(i) == TimeDiff(rows[i], target_date)
        normal(i) == strict \/ alpha * age(i) < UnderflowTenths
    IN  /\ \A i \in 1..Len(rows) :
              /\ age(i) >= 0
              /\ w(i) >= 0 /\ w(i) <= WScale
              /\ normal(i) => w(i) > 0
        /\ \A i, j \in 1..Len(rows) :
              (rows[i].Player_ID = rows[j].Player_ID /\ age(i) > age(j)) =>
                  /\ w(i) <= w(j)
                  /\ normal(i) => w(i) < w(j)

\* C11 as claimed: for positive alpha every weight given to a history row
\* lies in (0, 1], no weight comes from a negative age, and of two rows of
\* one entity the older has the strictly smaller weight.
C11_WeightsAsClaimed == WeightsHold(TRUE)

\* C11 as amended: every weight lies in [0, 1], no weight comes from a
\* negative age and an older row never has the larger weight; the weight is
\* above 0, and strictly smaller for the older of two rows of one entity,
\* while alpha * age is below the point (745.2) where float64 exp gives 0.0.
C11_Weights == WeightsHold(FALSE)

\* A call that weighted two rows of one entity, 14 and 7 days old, under
\* alpha = 0.1: weights 0.2466 and 0.4966.
C11_Witness ==
    /\ alpha = 1
    /\ \E i, j \in 1..Len(WeightedRows) :
          /\ WeightedRows[i].Player_ID = WeightedRows[j].Player_ID
          /\ TimeDiff(WeightedRows[i], target_date) = 14
          /\ TimeDiff(WeightedRows[j], target_date) = 7
          /\ Weight(WeightedRows[i], target_date, alpha) = 2466
          /\ Weight(WeightedRows[j], target_date, alpha) = 4966

(* -------------------------------- C12 --------------------------------- *)

\* C12 (one column order).  Within one built training set every pair takes
\* its aggregated vector and its target vector from the same column list in
\* the same order: every vector has the length of that list and position j
\* denotes the same column in every vector.
C12_SameColumnOrder ==
    last.op = "build" =>
        \A k \in 1..Len(last.player_ids) :
            /\ last.pair_cols[k].features = last.common_cols
            /\ last.pair_cols[k].target = last.common_cols
            /\ DOMAIN last.aggregated_features[k] = SeqRange(last.common_cols)
            /\ DOMAIN last.target_values[k] = SeqRange(last.common_cols)
            /\ Cardinality(SeqRange(last.common_cols)) = Len(last.common_cols)

\* A build that emitted two pairs over two columns, in a process whose set
\* order is not the column order of the table.
C12_Witness ==
    /\ last.op = "build"
    /\ Len(last.player_ids) = 2
    /\ Len(last.common_cols) = 2
    /\ last.common_cols # schema.cols
    /\ last.pair_cols[1] = last.pair_cols[2]

(* -------------------------------- C13 --------------------------------- *)

\* The bookkeeping columns: entity identifier, date, age and weight.
Reserved == {"Player_ID", "Date", "TimeDiff", "Weight"}

\* C13 (reserved columns).  No bookkeeping column is among the columns a
\* call aggregates as features: not in the feature columns the builder
\* selects for its aggregation, not in any aggregated vector of the builder
\* or of get_player_latent_vector, whatever the dtype of the identifier
\* column.
C13_NoReservedFeature ==
    /\ last.op = "build" =>
          /\ SeqRange(last.feature_cols) \cap Reserved = {}
          /\ \A k \in 1..Len(last.player_ids) :
                /\ SeqRange(last.pair_cols[k].features) \cap Reserved = {}
                /\ DOMAIN last.aggregated_features[k] \cap Reserved = {}
    /\ last.op = "latent" =>
          \A i \in 1..Len(last.encoder_in) :
              DOMAIN last.encoder_in[i] \cap Reserved = {}

(* -------------------------------- C14 --------------------------------- *)

\* C14 (ColumnMismatch).  An entity whose aggregated columns and target-row
\* columns have nothing in common gets no pair: the builder emits no pair
\* of zero-length vectors.  (The dataset has no attribute that counts
\* skipped entities, so the count the claim asks for has nothing to be
\* compared with.)
C14_NoEmptyPair ==
    last.op = "build" =>
        \A k \in 1..Len(last.player_ids) :
            /\ last.pair_cols[k].features # << >>
            /\ DOMAIN last.aggregated_features[k] # {}
            /\ DOMAIN last.target_values[k] # {}

(* -------------------------------- C15 --------------------------------- *)

\* C15 (output order).  The builder emits its pairs in ascending order of
\* entity identifier, whatever the order of the rows in the table.
C15_AscendingIds ==
    last.op = "build" =>
        \A i, j \in 1..Len(last.player_ids) :
            i < j => last.player_ids[i] < last.player_ids[j]

\* A build that emitted players 1 and 2 in that order from a table whose
\* first row belongs to player 2.
C15_Witness ==
    /\ last.op = "build"
    /\ last.player_ids = << 1, 2 >>
    /\ last.input[1].Player_ID = 2
    /\ last.df_train[1].Player_ID = 2

(* -------------------------------- C16 --------------------------------- *)

\* The entities of table t with a row before the target date and a row on it.
Eligible(t, target) ==
    {p \in Ids(t) : HasRowBefore(t, p, target) /\ HasRowOn(t, p, target)}

\* C16 (aligned outputs).  After a build that ran to its end the three
\* outputs have one length, the number of eligible entities; every eligible
\* entity occurs exactly once; and at every index the id, the aggregated
\* vector and the target vector belong to one entity: the vector is the
\* aggregate of that entity's earlier rows and the target is read from that
\* entity's row on the target date.
C16_OutputsAligned ==
    (last.op = "build" /\ last.raised = "") =>
        /\ Len(last.aggregated_features) = Len(last.player_ids)
        /\ Len(last.target_values) = Len(last.player_ids)
        /\ Len(last.player_ids) = Cardinality(Eligible(last.input, target_date))
        /\ \A p \in Eligible(last.input, target_date) :
              Cardinality({k \in 1..Len(last.player_ids) : last.player_ids[k] = p}) = 1
        /\ \A k \in 1..Len(last.player_ids) :
              LET p == last.player_ids[k]
                  on == SelectSeq(last.df_val, LAMBDA r : r.Player_ID = p)
                  before == SelectSeq(last.df_train, LAMBDA r : r.Player_ID = p)
              IN  /\ on # << >>
                  /\ \A c \in DOMAIN last.target_values[k] :
                        last.target_values[k][c] = ToNumeric(on[1].val[c])
                  /\ \A c \in DOMAIN last.aggregated_features[k] :
                        last.aggregated_features[k][c]
                            = GroupAggregate(before, c, target_date, alpha)

(* -------------------------------- C17 --------------------------------- *)

\* C17 (fill after aggregation).  In get_player_latent_vector no history
\* cell is replaced by 0 before it is multiplied by its weight: every cell
\* of the frame that is multiplied by the weights is the cell of the history
\* row (Home/Away as a number), a missing cell still missing.
C17_NoFillBeforeWeighting ==
    last.op = "latent" =>
        LET hist == LatentHistory(last.input, target_date)
        IN  \A i \in 1..Len(last.feature_df) :
                \A c \in DOMAIN last.feature_df[i] :
                    last.feature_df[i][c] = ToNumeric(hist[i].val[c])

(* -------------------------------- C18 --------------------------------- *)

\* The rows of the table handed to the last team-form call that belong to
\* team t and are dated strictly before the target date.
Qualifying(t) ==
    SelectSeq(form.table, LAMBDA r : r.team = t /\ r.date < form.target_date)

\* C18 (window).  get_team_form returns at most num_matches rows; every
\* returned row is a row of the table, of the named team, dated strictly
\* before the target date; no qualifying row left out is more recent than a
\* returned row, and no qualifying row is left out while the window has
\* room: the result is the num_matches most recent qualifying matches.
C18_Window ==
    form.op = "get_team_form" =>
        LET res == SeqRange(form.team_form)
            qual == SeqRange(Qualifying(form.team_name))
        IN  /\ Len(form.team_form) <= form.num_matches
            /\ Cardinality(res) = Len(form.team_form)
            /\ res \subseteq qual
            /\ \A q \in qual \ res : \A r \in res : q.date <= r.date
            /\ Len(form.team_form) = Min(form.num_matches, Cardinality(qual))

\* A call with window 1 on a table with two qualifying matches, the later
\* one stored first: the later one is returned.
C18_Witness ==
    /\ form.op = "get_team_form"
    /\ form.num_matches = 1
    /\ Len(Qualifying(form.team_name)) = 2
    /\ Qualifying(form.team_name)[1].date > Qualifying(form.team_name)[2].date
    /\ form.team_form = << Qualifying(form.team_name)[1] >>

(* -------------------------------- C19 --------------------------------- *)

\* The number of entries of the list ts that name team t.
Listed(ts, t) == Cardinality({i \in 1..Len(ts) : ts[i] = t})

\* C19 (team-form NoHistory).  aggregate_team_form returns the empty dict
\* for an empty table.  compile_team_recent_form emits rows only for listed
\* teams with a match strictly before the target date, each with
\* 1 <= matches_included <= num_matches and with the aggregated statistics
\* of that many matches (never a row made up for a team without history),
\* and at most one row for any team.
C19_TeamNoHistory ==
    /\ (form.op = "aggregate_team_form" /\ form.table = << >>) =>
          form.stats = EmptyStats
    /\ form.op = "compile_team_recent_form" =>
          /\ \A k \in 1..Len(form.compiled) :
                LET row == form.compiled[k]
                IN  /\ Listed(form.teams, row.team) >= 1
                    /\ Qualifying(row.team) # << >>
                    /\ row.matches_included >= 1
                    /\ row.matches_included <= form.num_matches
                    /\ row.matches_included <= Len(Qualifying(row.team))
                    /\ row.stats # EmptyStats
                    /\ row.stats["wins"].num + row.stats["draws"].num
                          + row.stats["losses"].num = row.matches_included
          /\ \A t \in TeamNames :
                Cardinality({k \in 1..Len(form.compiled) : form.compiled[k].team = t})
                    <= 1

(* -------------------------------- C20 --------------------------------- *)

\* The recommended weight of section 4.1, exp(-alpha * age) for an age in
\* days and alpha in tenths, in float64: 0.0 from the underflow threshold
\* on.
RecommendedWeight(age, a) == Rat(NpExpNeg(a * age), WScale)

\* The weighted average of the gf column under the recommended weights with
\* the reference date ref: weighted_sum / weight_total, and None when the
\* weight total is 0 (lines 45-47).
RecommendedAverage(rows, a, ref) ==
    LET w == [i \in 1..Len(rows) |-> RecommendedWeight(ref - rows[i].date, a)]
        weight_total == TeamSum(w)
    IN  IF weight_total = Num(0) THEN [kind |-> "none", num |-> 0, den |-> 1]
        ELSE TeamDiv(TeamSum([i \in 1..Len(rows) |-> TeamMul(rows[i].gf, w[i])]),
                     weight_total)

EarliestDate(rows) ==
    CHOOSE d \in {rows[i].date : i \in 1..Len(rows)} :
        \A i \in 1..Len(rows) : d <= rows[i].date

LatestDate(rows) ==
    CHOOSE d \in {rows[i].date : i \in 1..Len(rows)} :
        \A i \in 1..Len(rows) : rows[i].date <= d

\* Reference dates on or after the latest match: that date, and a week on.
RefDates(rows) == {LatestDate(rows), LatestDate(rows) + 7}

\* A finite value in hundredths, rounded down.
Hundredths(v) == (v.num \div v.den) * 100 + ((v.num % v.den) * 100) \div v.den

\* Two float64 results agree: the same non-finite value, or finite values
\* no further apart than the rounding of the exp tables.
SameAverage(a, b) ==
    IF a.kind = "num" /\ b.kind = "num"
    THEN Abs(Hundredths(a) - Hundredths(b)) <= 1
    ELSE a.kind = b.kind

\* a <= b for weights (a fraction above 0, or +inf).
WeightLe(a, b) ==
    \/ b.kind = "inf"
    \/ /\ a.kind = "num"
       /\ b.kind = "num"
       /\ LET g == GCD(a.den, b.den)
          IN  a.num * (b.den \div g) <= b.num * (a.den \div g)

\* C20 (sign-convention equivalence).  For every non-empty team-form table
\* and positive alpha, the weighted average of aggregate_team_form (weight
\* exp(+alpha * days since the earliest match)) equals the average under the
\* recommended weight exp(-alpha * (reference date - match date)) for every
\* reference date on or after the latest match, and a more recent match
\* never has a smaller weight than an older one.
C20_SignEquivalence ==
    (form.op = "aggregate_team_form" /\ form.weighted /\ form.table # << >>) =>
        LET rows == form.table
            first_date == EarliestDate(rows)
        IN  /\ \A ref \in RefDates(rows) :
                  SameAverage(form.stats["avg_gf"],
                              RecommendedAverage(rows, form.alpha, ref))
            /\ \A i, j \in 1..Len(rows) :
                  rows[i].date <= rows[j].date =>
                      WeightLe(TeamWeight(rows[i].date - first_date, form.alpha),
                               TeamWeight(rows[j].date - first_date, form.alpha))

(* -------------------------------- C21 --------------------------------- *)

\* C21 (API first, browser as fallback).  A call of get_team_last_matches
\* returns the API's matches without starting the browser approach when
\* the API approach found at least one match; when it found none, the
\* browser fallback is run and its result is returned to the caller.
C21_ApiThenBrowser ==
    (scrape.fn = "get_team_last_matches" /\ scrape.pc \in {"returned", "raised"}) =>
        /\ scrape.api_matches # << >> =>
              /\ scrape.pc = "returned"
              /\ scrape.ret = scrape.api_matches
              /\ ~scrape.browser_started
        /\ scrape.api_matches = << >> =>
              /\ scrape.browser_started
              /\ scrape.pc = "returned"

(* -------------------------------- C25 --------------------------------- *)

\* The positions of the log at which a team's attempt starts.
AttemptStarts(log) == {p \in 1..Len(log) : log[p].ev = "attempt"}

\* C25 (wait between teams).  In a run of scrape_team_data that has ended,
\* by a return or by an error, there is a wait of 2 seconds between the
\* starts of any two consecutive attempts, whatever the earlier attempt's
\* outcome, and no wait after the last team's attempt.
C25_WaitBetweenTeams ==
    (scrape.fn = "scrape_team_data" /\ scrape.pc \in {"returned", "raised"}) =>
        /\ \A p, q \in AttemptStarts(scrape.log) :
              (p < q /\ \A m \in (p + 1)..(q - 1) : m \notin AttemptStarts(scrape.log)) =>
                  \E m \in (p + 1)..(q - 1) :
                      scrape.log[m] = [ev |-> "sleep", arg |-> 2]
        /\ scrape.log # << >> => scrape.log[Len(scrape.log)].ev = "attempt"

(* -------------------------------- C28 --------------------------------- *)

\* C28 (sides of a match record).  Every record get_team_matches_api
\* returns has gf = the goals of the requested team (the team the search
\* found), ga = the goals of its opponent, and opponent = the name of the
\* other side, also when team_name matched the API's name only without
\* case or as a part of it.
C28_RecordSides ==
    (scrape.fn = "get_team_matches_api" /\ scrape.pc = "returned") =>
        LET finished == FinishedEvents(scrape.events.events)
        IN  \A k \in 1..Len(scrape.ret) :
                LET event == finished[k]
                    home == event.homeTeam = ApiTeam
                IN  /\ scrape.ret[k].gf = IF home THEN event.homeScore ELSE event.awayScore
                    /\ scrape.ret[k].ga = IF home THEN event.awayScore ELSE event.homeScore
                    /\ scrape.ret[k].opponent = ApiOpponent

(* -------------------------------- C22 --------------------------------- *)

\* How many times u occurs in the sequence s.
Occurrences(s, u) == Cardinality({i \in 1..Len(s) : s[i] = u})

\* C22 (all games in the date range are scraped).  On every path by which
\* navigate_games_within_dates returns, every game url that was collected
\* into a round has been passed to scraping_caller_for_rounds exactly once,
\* also when the last page visited added no game to the round.
C22_AllCollectedScraped ==
    league.navigate = "returned" =>
        \A i \in 1..Len(league.collected) :
            Occurrences(league.passed, league.collected[i]) = 1

(* -------------------------------- C24 --------------------------------- *)

\* C24 (module-level driver released).  Whenever main of the full-league
\* scraper or of the first single-game scraper has terminated, normally or
\* by an error, every WebDriver created at import has been quit.
C24_DriverReleased ==
    league.pc = "terminated" =>
        /\ league.driver = "quit"
        /\ league.imported_driver # "open"

(* -------------------------------- C23 --------------------------------- *)

\* C23 (scoped driver).  When a call of single_game_scraper or of
\* scrape_team_match_stats is over, however it ended, every WebDriver it
\* created has been quit exactly once; until then it has not been quit; a
\* driver the caller passed in is never quit by the call.
C23_ScopedDriver ==
    /\ browser.pc \in {"returned", "exited", "raised"} =>
          browser.quits = browser.created
    /\ browser.pc = "retry" => browser.quits = 0
    /\ browser.given_quits = 0

\* scrape_team_match_stats created its driver, the scrape raised, and the
\* driver was quit on the way out.
C23_Witness ==
    /\ browser.fn = "scrape_team_match_stats"
    /\ ~browser.given
    /\ browser.pc = "returned"
    /\ browser.ret = "empty"
    /\ browser.created = 1
    /\ browser.quits = 1

(* -------------------------------- C26 --------------------------------- *)

\* What holds of the attempts of the browser path at every moment: at most
\* 3 of them, data only as the outcome of the last one and then returned
\* at once, an empty frame returned only after 3 attempts without data.
RetryBounded ==
    browser.fn = "single_game_scraper" =>
        /\ Len(browser.attempts) <= 3
        /\ \A i \in 1..Len(browser.attempts) :
              browser.attempts[i] = "data" =>
                  /\ i = Len(browser.attempts)
                  /\ browser.pc = "returned"
                  /\ browser.ret = "data"
        /\ browser.pc = "retry" =>
              /\ browser.retry_count = Len(browser.attempts)
              /\ browser.retry_count <= 3
        /\ (browser.pc = "returned" /\ browser.created = 1 /\ browser.ret = "empty") =>
              /\ Len(browser.attempts) = 3
              /\ \A i \in 1..3 : browser.attempts[i] \in {"empty", "raises"}

\* C26 (bounded retry).  On the browser path single_game_scraper makes at
\* most 3 page-load attempts, returns the data of the first attempt that
\* gives a non-empty table without another attempt, returns an empty frame
\* after 3 attempts that failed or came back empty, and every step of the
\* loop that does not return increments the attempt counter, so the loop
\* ends.
C26_BoundedRetry ==
    /\ []RetryBounded
    /\ [][browser.pc = "retry" =>
              \/ browser'.pc = "returned"
              \/ /\ browser'.pc = "retry"
                 /\ browser'.retry_count = browser.retry_count + 1]_vars

\* Three attempts, a failure among them and an empty table among them,
\* then the empty frame.
C26_Witness ==
    /\ browser.fn = "single_game_scraper"
    /\ browser.pc = "returned"
    /\ browser.ret = "empty"
    /\ browser.attempts = << "raises", "empty", "raises" >>
    /\ browser.waits = << 2, 4 >>

(* -------------------------------- C27 --------------------------------- *)

\* C27 (always a DataFrame).  Every call of single_game_scraper ends by
\* returning a frame to its caller: the process is not terminated and no
\* error leaves the call, whatever fails (the API path, create_driver, the
\* browser scraping).
C27_AlwaysReturns ==
    (browser.fn = "single_game_scraper" /\ browser.pc # "retry") =>
        /\ browser.exit = "returned"
        /\ browser.ret \in {"data", "empty"}

(* -------------------------------- C29 --------------------------------- *)

\* A displayed value of the form goals/attempts.
IsGoalsAttempts(text) ==
    /\ Len(Split(text, "/")) = 2
    /\ IsDigitStr(Strip(Split(text, "/")[1]))
    /\ IsDigitStr(Strip(Split(text, "/")[2]))

GoalsOf(text) == IntOf(Strip(Split(text, "/")[1]))

AttemptsOf(text) == IntOf(Strip(Split(text, "/")[2]))

\* C29 (penalties).  When the page's penalties row shows goals/attempts
\* for both sides, the records scrape_team_match_stats returns have pk =
\* goals and pkatt = attempts for each side.
C29_PenaltiesKept ==
    (browser.fn = "scrape_team_match_stats" /\ browser.ret = "records") =>
        \A i \in 1..Len(browser.stat_rows) :
            LET row == browser.stat_rows[i]
            IN  (row.name = "penalties" /\ IsGoalsAttempts(row.home)
                    /\ IsGoalsAttempts(row.away)) =>
                    /\ browser.records[1].pk = IntValue(GoalsOf(row.home))
                    /\ browser.records[1].pkatt = IntValue(AttemptsOf(row.home))
                    /\ browser.records[2].pk = IntValue(GoalsOf(row.away))
                    /\ browser.records[2].pkatt = IntValue(AttemptsOf(row.away))

(* -------------------------------- C30 --------------------------------- *)

\* Row k is a 7-character row whose month is greater than the month of the
\* 7-character row before it.
MonthRises(rows, k) ==
    /\ Len(rows[k]) = 7
    /\ \E j \in 1..(k - 1) :
          /\ Len(rows[j]) = 7
          /\ \A m \in (j + 1)..(k - 1) : Len(rows[m]) # 7
          /\ MonthOf(rows[k]) > MonthOf(rows[j])

\* The Date the latch gives row k: the first season year's digit from the
\* first rise on, the second's before it.
LatchedDate(rows, k) ==
    IF Len(rows[k]) = 8 THEN rows[k]
    ELSE IF \E j \in 1..k : MonthRises(rows, j)
    THEN Append(rows[k], YearPart1(SeasonFile))
    ELSE Append(rows[k], YearPart2(SeasonFile))

\* The latch on the rows of 7 or 8 characters, for the inputs fix_dates
\* does not raise on.
LatchHolds ==
    (dates.pc = "done" /\ dates.raised = "") =>
        \A k \in 1..Len(dates.rows) : dates.Date[k] = LatchedDate(dates.rows, k)

\* C30 (fix_dates is a one-way latch).  For every input, fix_dates returns
\* a Date column with one entry per input row: 8-character dates as they
\* were, 7-character dates with the second season year's digit until the
\* first row whose month is greater than that of the 7-character row before
\* it, and with the first season year's digit from that row on.
C30_DateLatch ==
    dates.pc = "done" =>
        /\ dates.raised = ""
        /\ Len(dates.Date) = Len(dates.rows)
        /\ \A k \in 1..Len(dates.rows) :
              Len(dates.rows[k]) \in {7, 8} =>
                  dates.Date[k] = LatchedDate(dates.rows, k)

====
